---- MODULE Spec2Model ----
(***************************************************************************)
(* Complaints Navigator: the session controller (chat.js), the fact        *)
(* extraction of intake.js and the pathway router (router.js).             *)
(*                                                                         *)
(* The controller is an event-driven browser program: user events (clicks  *)
(* on the buttons that are on screen) interleave with the completions of   *)
(* outstanding calls to the AI service and to the postcode lookup.  The    *)
(* state is the module-level variables of chat.js, the parts of the DOM    *)
(* that carry event handlers, localStorage, and the outstanding calls.     *)
(* Text that is only rendered (messages, toasts, the letter textarea, the  *)
(* MP panel with resolvedMP) has no influence on the session and is left   *)
(* out.                                                                    *)
(***************************************************************************)
EXTENDS Integers, Sequences, FiniteSets, TLC

\* ---------------------------------------------------------------- bounds
MaxSessions == 2    \* complaints started (fresh session ids) in one run
MaxCalls == 3       \* calls to the AI service issued in one run
MaxGates == 1       \* gates with enabled buttons in one message list

\* ------------------------------------------------------- nullable values
\* A JavaScript reference that may be null: <<>> is null, <<v>> is v.
Null == << >>
Some(v) == << v >>
IsNull(x) == x = << >>
Val(x) == x[1]

\* --------------------------------------------------------------- router
Absent == "absent"   \* an undefined / missing property or argument

PathwayKeys ==
  { "nhs_trust", "gp", "social_care", "council", "police", "school",
    "dwp_decision", "dwp_service", "dwp", "hmrc",
    "nhs_trust_scotland", "gp_scotland", "council_scotland",
    "police_scotland", "social_care_scotland",
    "nhs_trust_wales", "gp_wales", "council_wales", "police_wales",
    "social_care_wales",
    "nhs_trust_ni", "gp_ni", "council_ni", "police_ni", "social_care_ni",
    "other_gov" }

\* Number of steps of each catalog entry.
NumSteps(key) ==
  CASE key \in { "council", "school", "dwp", "hmrc" } -> 4
    [] key \in { "nhs_trust", "gp", "social_care", "dwp_service",
                 "council_scotland", "social_care_scotland",
                 "council_wales", "social_care_wales" } -> 3
    [] key = "police_ni" -> 1
    [] OTHER -> 2

\* a catalog whose entries mark no step
DefaultCurrent_none(key) == 0

\* Index of the step carrying `current: true` in the catalog entry.
DefaultCurrent(key) == 1

\* The catalog entry itself (the object held by PATHWAYS): its key, the
\* current flag of each step, and whether the value is a clone.
PATHWAYS(key) ==
  [ key |-> key,
    current |-> [ i \in 1..NumSteps(key) |-> i = DefaultCurrent(key) ],
    copy |-> FALSE ]

\* The PATHWAYS object as it is now: a module-level object of router.js
\* that getPathway hands out by reference.
VARIABLE catalog

\* PATHWAYS is a plain object literal: a property read with a name that
\* Object.prototype defines finds the inherited member.
ObjectPrototypeKeys == { "constructor", "toString" }

\* Such a member: truthy, not a catalog entry, without a steps array.
InheritedMember(key) ==
  [ key |-> key, current |-> << >>, copy |-> FALSE ]

\* the nation map without its 'Northern Ireland' member
NationSuffix_noNI(nation) ==
  CASE nation = "Scotland" -> "scotland"
    [] nation = "Wales" -> "wales"
    [] OTHER -> Absent

NationSuffix(nation) ==
  CASE nation = "Scotland" -> "scotland"
    [] nation = "Wales" -> "wales"
    [] nation = "Northern Ireland" -> "ni"
    [] OTHER -> Absent

\* `${bodyType}_${nationKey}`
NationKeyOf(bodyType, suffix) ==
  CASE suffix = "scotland" ->
         ( CASE bodyType = "nhs_trust" -> "nhs_trust_scotland"
             [] bodyType = "gp" -> "gp_scotland"
             [] bodyType = "council" -> "council_scotland"
             [] bodyType = "police" -> "police_scotland"
             [] bodyType = "social_care" -> "social_care_scotland"
             [] OTHER -> Absent )
    [] suffix = "wales" ->
         ( CASE bodyType = "nhs_trust" -> "nhs_trust_wales"
             [] bodyType = "gp" -> "gp_wales"
             [] bodyType = "council" -> "council_wales"
             [] bodyType = "police" -> "police_wales"
             [] bodyType = "social_care" -> "social_care_wales"
             [] OTHER -> Absent )
    [] suffix = "ni" ->
         ( CASE bodyType = "nhs_trust" -> "nhs_trust_ni"
             [] bodyType = "gp" -> "gp_ni"
             [] bodyType = "council" -> "council_ni"
             [] bodyType = "police" -> "police_ni"
             [] bodyType = "social_care" -> "social_care_ni"
             [] OTHER -> Absent )
    [] OTHER -> Absent

\* getPathway without its DWP cases
getPathwayKey_noDwpCases(bodyType, complaintType, nation) ==
  IF /\ nation # Absent
     /\ nation # "England"
     /\ NationSuffix(nation) # Absent
     /\ NationKeyOf(bodyType, NationSuffix(nation)) \in PathwayKeys
  THEN NationKeyOf(bodyType, NationSuffix(nation))
  ELSE IF bodyType \in PathwayKeys \cup ObjectPrototypeKeys THEN bodyType
  ELSE "other_gov"

\* The key of the entry getPathway returns.
getPathwayKey(bodyType, complaintType, nation) ==
  IF bodyType = "dwp" /\ complaintType = "decision" THEN "dwp_decision"
  ELSE IF bodyType = "dwp" /\ complaintType = "service" THEN "dwp_service"
  ELSE IF /\ nation # Absent
          /\ nation # "England"
          /\ NationSuffix(nation) # Absent
          /\ NationKeyOf(bodyType, NationSuffix(nation)) \in PathwayKeys
       THEN NationKeyOf(bodyType, NationSuffix(nation))
  ELSE IF bodyType \in PathwayKeys \cup ObjectPrototypeKeys THEN bodyType
  ELSE "other_gov"

getPathway(bodyType, complaintType, nation) ==
  LET key == getPathwayKey(bodyType, complaintType, nation)
  IN IF key \in PathwayKeys THEN catalog[key] ELSE InheritedMember(key)

\* ---- progress inference
\* The texts a stepsTaken field is drawn from, with the keywords each one
\* contains once lower-cased (String.prototype.includes).
StepsTexts ==
  { Absent, "", "none", "No",
    "I spoke to someone on the phone",
    "I already made a formal written complaint",
    "I called them and then went to the ombudsman",
    "I called and then sent a written complaint",
    "I am at stage 2",
    "I reached tier 2 of the process",
    "I emailed the manager" }

KeywordsIn(text) ==
  CASE text = "I spoke to someone on the phone" -> { "spoke" }
    [] text = "I already made a formal written complaint" ->
         { "formal", "written" }
    [] text = "I called them and then went to the ombudsman" ->
         { "called", "ombudsman" }
    [] text = "I called and then sent a written complaint" ->
         { "called", "written" }
    [] text = "I am at stage 2" -> { "stage 2" }
    [] text = "I reached tier 2 of the process" -> { "tier 2" }
    [] OTHER -> {}

IsNoneText(text) ==
  \/ text = Absent
  \/ text = ""
  \/ text \in { "none", "None", "NONE" }
  \/ text \in { "no", "No", "NO" }

OmbudsmanTerms == { "ombudsman", "phso", "lgsco", "iopc" }
FormalTerms == { "formal", "written", "complained", "stage 2", "tier 2" }
InformalTerms == { "pals", "spoke", "called", "mentioned", "raised", "tried" }

RECURSIVE ScanSteps(_, _, _)

\* the loop testing the informal terms before the ombudsman-level ones
ScanSteps_informalFirst(i, n, kws) ==
  IF i > n THEN 0
  ELSE IF kws \cap InformalTerms # {} THEN (IF n > 1 THEN 2 ELSE 1)
  ELSE IF kws \cap OmbudsmanTerms # {} THEN n
  ELSE IF kws \cap FormalTerms # {} THEN (IF i < n THEN i + 1 ELSE i)
  ELSE ScanSteps(i + 1, n, kws)

\* the formal branch marking the matching step itself
ScanSteps_formalStays(i, n, kws) ==
  IF i > n THEN 0
  ELSE IF kws \cap OmbudsmanTerms # {} THEN n
  ELSE IF kws \cap FormalTerms # {} THEN i
  ELSE IF kws \cap InformalTerms # {} THEN (IF n > 1 THEN 2 ELSE 1)
  ELSE ScanSteps(i + 1, n, kws)

\* the informal branch marking the first step
ScanSteps_informalFirstStep(i, n, kws) ==
  IF i > n THEN 0
  ELSE IF kws \cap OmbudsmanTerms # {} THEN n
  ELSE IF kws \cap FormalTerms # {} THEN (IF i < n THEN i + 1 ELSE i)
  ELSE IF kws \cap InformalTerms # {} THEN 1
  ELSE ScanSteps(i + 1, n, kws)

\* the formal branch reading 'stage 2' and 'tier 2' as the second stage
\* done, and marking the third step
ScanSteps_stageNumber(i, n, kws) ==
  IF i > n THEN 0
  ELSE IF kws \cap OmbudsmanTerms # {} THEN n
  ELSE IF kws \cap { "stage 2", "tier 2" } # {}
       THEN (IF n > 2 THEN 3 ELSE n)
  ELSE IF kws \cap FormalTerms # {} THEN (IF i < n THEN i + 1 ELSE i)
  ELSE IF kws \cap InformalTerms # {} THEN (IF n > 1 THEN 2 ELSE 1)
  ELSE ScanSteps(i + 1, n, kws)

\* The index the for-loop marks, scanning i = 1..n; 0 when no step is found.
ScanSteps(i, n, kws) ==
  IF i > n THEN 0
  ELSE IF kws \cap OmbudsmanTerms # {} THEN n
  ELSE IF kws \cap FormalTerms # {} THEN (IF i < n THEN i + 1 ELSE i)
  ELSE IF kws \cap InformalTerms # {} THEN (IF n > 1 THEN 2 ELSE 1)
  ELSE ScanSteps(i + 1, n, kws)

\* the function without its `if (!foundStep)` default
DefaultStep_noDefault(found) == found

\* the default falling on the second step
DefaultStep_second(found) == IF found = 0 THEN 2 ELSE found

\* if (!foundStep) adjusted.steps[0].current = true
DefaultStep(found) == IF found = 0 THEN 1 ELSE found

\* adjustForStepsTaken writing to the object it was given
deepClone_alias(pathway) == pathway

\* JSON.parse(JSON.stringify(pathway))
deepClone(pathway) == [ pathway EXCEPT !.copy = TRUE ]

adjustForStepsTaken(pathway, stepsTaken) ==
  IF IsNoneText(stepsTaken) THEN pathway
  ELSE LET adjusted == deepClone(pathway)
           n == Len(adjusted.current)
           idx == DefaultStep(ScanSteps(1, n, KeywordsIn(stepsTaken)))
       IN [ adjusted EXCEPT !.current = [ i \in 1..n |-> i = idx ] ]

\* The call throws: a value without steps cannot be cloned and walked
\* (JSON.parse of undefined, or forEach / [0] of a missing steps array).
adjustForStepsTakenThrows(pathway, stepsTaken) ==
  /\ ~IsNoneText(stepsTaken)
  /\ Len(pathway.current) = 0

\* The catalog after adjustForStepsTaken(pathway, stepsTaken) ran on the
\* catalog cat: the writes to the steps of `adjusted` land in a catalog
\* entry exactly when `adjusted` is that entry.
catalogAfterAdjust(cat, pathway, stepsTaken) ==
  IF adjustForStepsTakenThrows(pathway, stepsTaken) THEN cat
  ELSE LET result == adjustForStepsTaken(pathway, stepsTaken)
       IN IF result.copy \/ result.key \notin PathwayKeys THEN cat
          ELSE [ cat EXCEPT ![result.key] = result ]

\* --------------------------------------------------- facts and AI replies
SERIOUS_CONCERNS ==
  { "emergency", "crime", "child_safeguarding", "adult_safeguarding" }

\* The values of safeguardingConcern the model draws from: the four serious
\* ones, 'none', 'regulatory', the empty string, and a string that no
\* table of the controller lists.
Concerns ==
  SERIOUS_CONCERNS \cup { "none", "regulatory", "", "whistleblowing" }

\* A test that asks for a gate for the listed concern types only
isFlagged_listedOnly(concern) ==
  concern \in SERIOUS_CONCERNS \cup { "regulatory" }

\* facts.safeguardingConcern && facts.safeguardingConcern !== 'none'
isFlagged(concern) ==
  concern \notin { Absent, "", "none" }

Facts(concern, postcode, bodyType, complaintType, nation, stepsTaken) ==
  [ safeguardingConcern |-> concern, postcode |-> postcode,
    bodyType |-> bodyType, complaintType |-> complaintType,
    nation |-> nation, stepsTaken |-> stepsTaken ]

\* The concern values of the facts the AI service is taken to produce.
AiConcerns == { "none", "crime", "regulatory", "", "whistleblowing" }

\* The facts records the AI service is taken to produce: one per concern
\* value of AiConcerns, and one with a postcode in a devolved nation.
AiFacts ==
  { Facts(c, FALSE, "nhs_trust", "general", "England", "none") :
      c \in AiConcerns }
  \cup { Facts("none", TRUE, "police", Absent, "Scotland",
               "I spoke to someone on the phone") }

\* The bodies offered by the fallback card that the model lets the user pick.
FallbackBodies == { "dwp" }

\* extractedFacts = { bodyType, publicBody, withinTimeLimit: 'unknown' }
FallbackFacts(bodyType) ==
  Facts(Absent, FALSE, bodyType, Absent, Absent, Absent)

\* An AI reply, by what extractFacts looks at: whether it has a ```json
\* block, whether the block's text parses, and the extractionComplete and
\* facts properties of the parsed value.
Reply(block, parses, complete, facts) ==
  [ block |-> block, parses |-> parses, extractionComplete |-> complete,
    facts |-> facts ]

Replies ==
  { Reply(FALSE, FALSE, FALSE, Null),
    Reply(TRUE, FALSE, FALSE, Null),
    Reply(TRUE, TRUE, TRUE, Null),
    Reply(TRUE, TRUE, FALSE,
          Some(Facts("none", FALSE, "nhs_trust", "general", "England",
                     "none"))) }
  \cup { Reply(TRUE, TRUE, TRUE, Some(f)) : f \in AiFacts }

\* extractFacts without the extractionComplete test
extractFacts_noCompleteTest(responseText) ==
  IF ~responseText.block THEN Null
  ELSE IF ~responseText.parses THEN Null
  ELSE responseText.facts

extractFacts(responseText) ==
  IF ~responseText.block THEN Null
  ELSE IF ~responseText.parses THEN Null
  ELSE IF responseText.extractionComplete /\ ~IsNull(responseText.facts)
       THEN responseText.facts
  ELSE Null

\* The country a successful postcode lookup reports.
LookupCountries == { "Scotland" }

\* ------------------------------------------------------------ the state
VARIABLES
  conversationHistory,  \* sequence of roles, one per message
  extractedFacts,       \* Null or Some(facts)
  currentPathway,       \* Null or Some(pathway)
  resolvedBodies,       \* Null or Some(country)
  sessionId,            \* 0 (null) or the id of the session
  sessionStatus,        \* intake | summary | pathway | letter
  isSending,            \* busy flag of handleSend
  nextId,               \* the next value crypto.randomUUID() gives
  view,                 \* which container is shown
  consentGate,          \* the consent gate is visible
  consentChecks,        \* how many of the consent checkboxes are checked
  acceptWired,          \* the accept button has its click listener
  gateFromStart,        \* the gate was last shown by a start, boxes reset
  consent,              \* localStorage[CONSENT_KEY] = 'granted'
  summaryCards,         \* concerns of the facts the cards on screen close over
  gates,                \* safeguarding gates on screen
  pathwayCards,         \* a pathway card is on screen
  fallbackCard,         \* the fallback card is on screen
  sessions,             \* localStorage[STORAGE_KEY], newest first
  pendingGreetings,     \* sendInitialGreeting calls awaiting the AI service
  sendPc,               \* where handleSend is: idle | awaitReply | awaitPostcode
  sendFacts,            \* handleSend's local `facts` while it awaits the lookup
  pendingLetters,       \* handleGenerateLetter calls awaiting the AI service
  calls,                \* calls to the AI service issued so far
  resetSinceSend,       \* the session was reset while handleSend is suspended
  rArgs,                \* arguments of a direct call of the router
  rTemplate,            \* what getPathway returned for them
  rInstance,            \* what adjustForStepsTaken returned for them
  rThrown,              \* adjustForStepsTaken threw
  calcCall,             \* a direct call of a calculator or prompt function
  calcResult,           \* what that call returned
  lsSessions,           \* stored sessions with their age, at a page load
  lsKeys,          \* the keys of localStorage, in localStorage.key order
  lsPc                  \* what has run on that storage

vars ==
  << conversationHistory, extractedFacts, currentPathway, resolvedBodies,
     sessionId, sessionStatus, isSending, nextId, view, consentGate,
     consentChecks, acceptWired, gateFromStart, consent, summaryCards,
     gates, pathwayCards,
     fallbackCard, sessions, pendingGreetings, sendPc, sendFacts,
     pendingLetters, calls, catalog, resetSinceSend, rArgs, rTemplate,
     rInstance, rThrown, calcCall, calcResult, lsSessions, lsKeys,
     lsPc >>

memVars ==
  << conversationHistory, extractedFacts, currentPathway, resolvedBodies,
     sessionId, sessionStatus >>

domVars == << summaryCards, gates, pathwayCards, fallbackCard >>

consentVars ==
  << consentGate, consentChecks, acceptWired, gateFromStart, consent >>

callVars ==
  << pendingGreetings, sendPc, sendFacts, pendingLetters, calls >>

routerVars == << rArgs, rTemplate, rInstance, rThrown >>

calcVars == << calcCall, calcResult, lsSessions, lsKeys, lsPc >>

\* The gates in the message list: whether a serious gate (with its go-home
\* button) is there, how many regulatory gates still have enabled buttons,
\* and whether a gate shows 'Acknowledged'.  A paused gate has no enabled
\* button left and is not recorded.
NoGates == [ serious |-> FALSE, open |-> 0, acknowledged |-> FALSE ]

MAX_SESSIONS == 10

\* The arguments of a router call when none was made: all undefined.
NoCall ==
  [ bodyType |-> Absent, complaintType |-> Absent, nation |-> Absent,
    stepsTaken |-> Absent ]

\* The modules as loaded: chat.js's variables and router.js's catalog.
PageLoad ==
  /\ catalog = [ key \in PathwayKeys |-> PATHWAYS(key) ]
  /\ resetSinceSend = FALSE
  /\ conversationHistory = << >>
  /\ extractedFacts = Null
  /\ currentPathway = Null
  /\ resolvedBodies = Null
  /\ sessionId = 0
  /\ sessionStatus = "intake"
  /\ isSending = FALSE
  /\ nextId = 1
  /\ view = "landing"
  /\ consentGate = FALSE
  /\ consentChecks = 0
  /\ acceptWired = FALSE
  /\ gateFromStart = FALSE
  /\ consent = FALSE
  /\ summaryCards = {}
  /\ gates = NoGates
  /\ pathwayCards = FALSE
  /\ fallbackCard = FALSE
  /\ sessions = << >>
  /\ pendingGreetings = 0
  /\ sendPc = "idle"
  /\ sendFacts = Null
  /\ pendingLetters = 0
  /\ calls = 0

\* No direct call of the router is in progress.
RouterIdle ==
  /\ rArgs = NoCall
  /\ rTemplate = Null
  /\ rInstance = Null
  /\ rThrown = FALSE

\* No direct call of the calculator is in progress, and storage is as a
\* first visit finds it.
CalcIdle ==
  /\ calcCall = Null
  /\ calcResult = Null
  /\ lsSessions = << >>
  /\ lsKeys = << >>
  /\ lsPc = "loaded"

Init ==
  /\ PageLoad
  /\ RouterIdle
  /\ CalcIdle

\* ------------------------------------------------------- save and resume
\* JSON.stringify / JSON.parse of a pathway: what is read back is a fresh
\* object, never the catalog entry.
Stored(pathway) ==
  IF IsNull(pathway) THEN Null
  ELSE Some([ Val(pathway) EXCEPT !.copy = TRUE ])

SessionIndex(ss, id) ==
  IF \E i \in 1..Len(ss) : ss[i].id = id
  THEN CHOOSE i \in 1..Len(ss) :
         /\ ss[i].id = id
         /\ \A j \in 1..(i - 1) : ss[j].id # id
  ELSE 0

\* Keys of localStorage: the sessions item and one diary item per session.
SessionsKey == [ kind |-> "sessions", id |-> 0 ]

DiaryKey(id) == [ kind |-> "diary", id |-> id ]

KeysOf(keys) == { keys[i] : i \in 1..Len(keys) }

StoredIds(ss) == { ss[i].id : i \in 1..Len(ss) }

RemoveAt(keys, i) == SubSeq(keys, 1, i - 1) \o SubSeq(keys, i + 1, Len(keys))

\* localStorage.removeItem(key)
removeItem(keys, key) ==
  IF \E i \in 1..Len(keys) : keys[i] = key
  THEN RemoveAt(keys, CHOOSE i \in 1..Len(keys) : keys[i] = key)
  ELSE keys

\* localStorage.setItem(key, ...): a new key takes the place `pos` of the
\* user agent's key order, an existing key keeps its place.
setItem(keys, key, pos) ==
  IF key \in KeysOf(keys) THEN keys
  ELSE SubSeq(keys, 1, pos - 1) \o << key >> \o SubSeq(keys, pos, Len(keys))

\* the app's keys left in place
removeAppKeys_keepDiaries(keys) == keys

\* handleDeleteAllData's two passes over localStorage: the app's keys are
\* collected first and removed afterwards, so none is skipped.
removeAppKeys(keys) ==
  SelectSeq(keys, LAMBDA key : key.kind \notin { "sessions", "diary" })

\* The conversation stored whatever the status.
shouldStoreHistory_always(status) == TRUE

\* const shouldStoreHistory = sessionStatus === 'intake'
shouldStoreHistory(status) == status = "intake"

\* saveSession() applied to the given values of the module variables.
saveSession(id, status, history, facts, bodies, pathway, ss) ==
  IF id = 0 THEN ss
  ELSE LET sessionData ==
             [ id |-> id,
               status |-> status,
               conversationHistory |->
                 IF shouldStoreHistory(status) THEN history ELSE << >>,
               extractedFacts |-> facts,
               resolvedBodies |-> bodies,
               currentPathway |-> Stored(pathway) ]
           existing == SessionIndex(ss, id)
           updated == IF existing > 0
                      THEN [ ss EXCEPT ![existing] = sessionData ]
                      ELSE << sessionData >> \o ss
       IN IF Len(updated) > MAX_SESSIONS
          THEN SubSeq(updated, 1, MAX_SESSIONS)
          ELSE updated

\* ------------------------------------------------------- landing, consent
\* handleStart -> showConsentGateForNewComplaint
handleStart ==
  /\ view = "landing"
  /\ consentChecks' = 0
  /\ consentGate' = TRUE
  /\ acceptWired' = TRUE
  /\ gateFromStart' = TRUE
  /\ UNCHANGED << memVars, domVars, callVars, isSending, nextId, view,
                  consent, sessions >>
  /\ UNCHANGED << catalog, resetSinceSend, routerVars, calcVars >>

\* change event of a consent checkbox: checked is its new value
toggleConsentCheck(checked) ==
  /\ view = "landing"
  /\ consentGate
  /\ IF checked THEN consentChecks < 3 ELSE consentChecks > 0
  /\ consentChecks' = IF checked THEN consentChecks + 1
                      ELSE consentChecks - 1
  /\ UNCHANGED << memVars, domVars, callVars, isSending, nextId, view,
                  consentGate, acceptWired, gateFromStart, consent,
                  sessions >>
  /\ UNCHANGED << catalog, resetSinceSend, routerVars, calcVars >>

\* proceedToChat, with the sendInitialGreeting call it starts
proceedToChat ==
  /\ conversationHistory' = << >>
  /\ extractedFacts' = Null
  /\ currentPathway' = Null
  /\ resolvedBodies' = Null
  /\ sessionId' = nextId
  /\ nextId' = nextId + 1
  /\ sessionStatus' = "intake"
  /\ summaryCards' = {}
  /\ gates' = NoGates
  /\ pathwayCards' = FALSE
  /\ fallbackCard' = FALSE
  /\ view' = "chat"
  /\ pendingGreetings' = pendingGreetings + 1
  /\ calls' = calls + 1
  /\ UNCHANGED << isSending, sessions, sendPc, sendFacts, pendingLetters >>
  /\ resetSinceSend' = (sendPc # "idle")
  /\ UNCHANGED << catalog, routerVars, calcVars >>

\* click on the consent gate's accept button
consentAccept ==
  /\ consentGate
  /\ acceptWired
  /\ consentChecks = 3
  /\ nextId <= MaxSessions
  /\ calls < MaxCalls
  /\ consent' = TRUE
  /\ consentGate' = FALSE
  /\ proceedToChat
  /\ UNCHANGED << consentChecks, acceptWired, gateFromStart >>

\* handleDeleteAllData, the confirm() dialog accepted
handleDeleteAllData ==
  /\ view = "landing"
  /\ sessions' = << >>
  /\ consent' = FALSE
  /\ conversationHistory' = << >>
  /\ extractedFacts' = Null
  /\ currentPathway' = Null
  /\ resolvedBodies' = Null
  /\ sessionId' = 0
  /\ sessionStatus' = "intake"
  /\ consentGate' = TRUE
  /\ gateFromStart' = FALSE
  /\ view' = "landing"
  /\ UNCHANGED << domVars, callVars, isSending, nextId, consentChecks,
                  acceptWired >>
  /\ resetSinceSend' = (sendPc # "idle")
  /\ lsKeys' = removeAppKeys(lsKeys)
  /\ UNCHANGED << catalog, routerVars, calcCall, calcResult, lsSessions,
                  lsPc >>

\* deleteSession(id), from a saved-session card
deleteSession(id) ==
  /\ view = "landing"
  /\ SessionIndex(sessions, id) > 0
  /\ sessions' = SelectSeq(sessions, LAMBDA s : s.id # id)
  /\ lsKeys' = removeItem(lsKeys, DiaryKey(id))
  /\ UNCHANGED << memVars, domVars, callVars, consentVars, isSending,
                  nextId, view >>
  /\ UNCHANGED << catalog, resetSinceSend, routerVars, calcCall, calcResult,
                  lsSessions, lsPc >>

\* handleResume(id), from a saved-session card
handleResume(id) ==
  /\ view = "landing"
  /\ SessionIndex(sessions, id) > 0
  /\ LET session == sessions[SessionIndex(sessions, id)]
     IN /\ sessionId' = session.id
        /\ conversationHistory' = session.conversationHistory
        /\ extractedFacts' = session.extractedFacts
        /\ currentPathway' = session.currentPathway
        /\ resolvedBodies' = session.resolvedBodies
        /\ sessionStatus' = session.status
        /\ gates' = NoGates
        /\ fallbackCard' = FALSE
        /\ view' = IF session.status = "letter" THEN "letter" ELSE "chat"
        /\ pathwayCards' = ( /\ session.status = "pathway"
                             /\ ~IsNull(session.currentPathway) )
        /\ summaryCards' =
             IF /\ session.status = "summary"
                /\ ~IsNull(session.extractedFacts)
             THEN { Val(session.extractedFacts).safeguardingConcern }
             ELSE {}
  /\ UNCHANGED << callVars, consentVars, isSending, nextId, sessions >>
  /\ UNCHANGED << catalog, resetSinceSend, routerVars, calcVars >>

\* handleBackToLanding: the chat-back button
handleBackToLanding ==
  /\ view = "chat"
  /\ view' = "landing"
  /\ UNCHANGED << memVars, domVars, callVars, consentVars, isSending,
                  nextId, sessions >>
  /\ UNCHANGED << catalog, resetSinceSend, routerVars, calcVars >>

\* ------------------------------------------------------------- chat flow
\* showFallbackPathways: at most one fallback card per message list
showFallbackPathways == fallbackCard' = TRUE

\* sendInitialGreeting, after its await: the AI service answered
greetingReply ==
  /\ pendingGreetings > 0
  /\ pendingGreetings' = pendingGreetings - 1
  /\ conversationHistory' = conversationHistory \o << "user", "model" >>
  /\ sessions' = saveSession(sessionId, sessionStatus, conversationHistory',
                             extractedFacts, resolvedBodies, currentPathway,
                             sessions)
  /\ UNCHANGED << extractedFacts, currentPathway, resolvedBodies, sessionId,
                  sessionStatus, domVars, consentVars, isSending, nextId,
                  view, sendPc, sendFacts, pendingLetters, calls >>
  /\ UNCHANGED << catalog, resetSinceSend, routerVars, calcVars >>

\* sendInitialGreeting, after its await: the call failed
greetingFail ==
  /\ pendingGreetings > 0
  /\ pendingGreetings' = pendingGreetings - 1
  /\ showFallbackPathways
  /\ UNCHANGED << memVars, consentVars, isSending, nextId, view, sessions,
                  summaryCards, gates, pathwayCards, sendPc, sendFacts,
                  pendingLetters, calls >>
  /\ UNCHANGED << catalog, resetSinceSend, routerVars, calcVars >>

\* handleSend up to its first await (the input holds a non-empty text)
handleSend ==
  /\ view = "chat"
  /\ IF isSending
     THEN UNCHANGED vars
     ELSE /\ calls < MaxCalls
          /\ calls' = calls + 1
          /\ isSending' = TRUE
          /\ sendPc' = "awaitReply"
          /\ resetSinceSend' = FALSE
          /\ UNCHANGED << memVars, domVars, consentVars, nextId, view,
                          sessions, pendingGreetings, sendFacts,
                          pendingLetters >>
  /\ UNCHANGED << catalog, routerVars, calcVars >>

\* handleSend after `await sendMessage(...)` returned responseText
sendReply(responseText) ==
  /\ sendPc = "awaitReply"
  /\ conversationHistory' = conversationHistory \o << "user", "model" >>
  /\ LET facts == extractFacts(responseText)
     IN IF IsNull(facts)
        THEN /\ sessions' = saveSession(sessionId, sessionStatus,
                                        conversationHistory', extractedFacts,
                                        resolvedBodies, currentPathway,
                                        sessions)
             /\ isSending' = FALSE
             /\ sendPc' = "idle"
             /\ UNCHANGED << extractedFacts, sessionStatus, summaryCards,
                             sendFacts >>
        ELSE /\ extractedFacts' = facts
             /\ sessionStatus' = "summary"
             /\ IF Val(facts).postcode
                THEN /\ sendPc' = "awaitPostcode"
                     /\ sendFacts' = facts
                     /\ UNCHANGED << isSending, summaryCards, sessions >>
                ELSE /\ summaryCards' =
                          summaryCards
                            \cup { Val(facts).safeguardingConcern }
                     /\ sessions' = saveSession(sessionId, "summary",
                                                conversationHistory', facts,
                                                resolvedBodies,
                                                currentPathway, sessions)
                     /\ isSending' = FALSE
                     /\ sendPc' = "idle"
                     /\ UNCHANGED sendFacts
  /\ UNCHANGED << currentPathway, resolvedBodies, sessionId, consentVars,
                  nextId, view, gates, pathwayCards, fallbackCard,
                  pendingGreetings, pendingLetters, calls >>
  /\ UNCHANGED << catalog, resetSinceSend, routerVars, calcVars >>

\* handleSend after `await lookupPostcode(...)`: country is the lookup's
\* answer, Absent when the lookup failed
postcodeDone(country) ==
  /\ sendPc = "awaitPostcode"
  /\ resolvedBodies' = IF country = Absent THEN resolvedBodies
                       ELSE Some(country)
  /\ summaryCards' = summaryCards \cup { Val(sendFacts).safeguardingConcern }
  /\ sessions' = saveSession(sessionId, sessionStatus, conversationHistory,
                             extractedFacts, resolvedBodies', currentPathway,
                             sessions)
  /\ isSending' = FALSE
  /\ sendPc' = "idle"
  /\ sendFacts' = Null
  /\ UNCHANGED << conversationHistory, extractedFacts, currentPathway,
                  sessionId, sessionStatus, consentVars, nextId, view, gates,
                  pathwayCards, fallbackCard, pendingGreetings,
                  pendingLetters, calls >>
  /\ UNCHANGED << catalog, resetSinceSend, routerVars, calcVars >>

\* handleSend's catch block picking a default pathway by itself instead of
\* offering the fallback card
sendFail_defaultPathway ==
  /\ sendPc = "awaitReply"
  /\ IF IsNull(extractedFacts)
     THEN /\ extractedFacts' = Some(FallbackFacts("dwp"))
          /\ currentPathway' = Some(getPathway("dwp", "general", "England"))
          /\ sessionStatus' = "pathway"
          /\ pathwayCards' = TRUE
     ELSE UNCHANGED << extractedFacts, currentPathway, sessionStatus,
                       pathwayCards >>
  /\ isSending' = FALSE
  /\ sendPc' = "idle"
  /\ UNCHANGED << conversationHistory, resolvedBodies, sessionId,
                  consentVars, nextId, view, sessions, summaryCards, gates,
                  fallbackCard, pendingGreetings, sendFacts, pendingLetters,
                  calls >>
  /\ UNCHANGED << catalog, resetSinceSend, routerVars, calcVars >>

\* handleSend's catch block without the finally block after it
sendFail_noFinally ==
  /\ sendPc = "awaitReply"
  /\ IF IsNull(extractedFacts)
     THEN showFallbackPathways
     ELSE UNCHANGED fallbackCard
  /\ sendPc' = "idle"
  /\ UNCHANGED << memVars, consentVars, nextId, view, sessions,
                  summaryCards, gates, pathwayCards, pendingGreetings,
                  sendFacts, pendingLetters, calls, isSending >>
  /\ UNCHANGED << catalog, resetSinceSend, routerVars, calcVars >>

\* handleSend when sendMessage threw
sendFail ==
  /\ sendPc = "awaitReply"
  /\ IF IsNull(extractedFacts)
     THEN showFallbackPathways
     ELSE UNCHANGED fallbackCard
  /\ isSending' = FALSE
  /\ sendPc' = "idle"
  /\ UNCHANGED << memVars, consentVars, nextId, view, sessions,
                  summaryCards, gates, pathwayCards, pendingGreetings,
                  sendFacts, pendingLetters, calls >>
  /\ UNCHANGED << catalog, resetSinceSend, routerVars, calcVars >>

\* click on a button of the fallback card
fallbackSelect(bodyType) ==
  /\ view = "chat"
  /\ fallbackCard
  /\ extractedFacts' = Some(FallbackFacts(bodyType))
  /\ currentPathway' = Some(getPathway(bodyType, "general", "England"))
  /\ sessionStatus' = "pathway"
  /\ pathwayCards' = TRUE
  /\ UNCHANGED << conversationHistory, resolvedBodies, sessionId, callVars,
                  consentVars, isSending, nextId, view, sessions,
                  summaryCards, gates, fallbackCard >>
  /\ UNCHANGED << catalog, resetSinceSend, routerVars, calcVars >>

\* --------------------------------------------- summary, gate and pathway
\* const nation = resolvedBodies?.country || extractedFacts.nation || 'England'
NationOf(bodies, facts) ==
  IF ~IsNull(bodies) /\ Val(bodies) # Absent THEN Val(bodies)
  ELSE IF facts.nation # Absent THEN facts.nation
  ELSE "England"

handleConfirmSummary ==
  IF IsNull(extractedFacts)
  THEN UNCHANGED << currentPathway, sessionStatus, pathwayCards, sessions,
                    catalog >>
  ELSE LET facts == Val(extractedFacts)
           nation == NationOf(resolvedBodies, facts)
           pathway == getPathway(facts.bodyType, facts.complaintType, nation)
           adjusted == adjustForStepsTaken(pathway, facts.stepsTaken)
       IN IF adjustForStepsTakenThrows(pathway, facts.stepsTaken)
          THEN UNCHANGED << currentPathway, sessionStatus, pathwayCards,
                            sessions, catalog >>
          ELSE
          /\ catalog' = catalogAfterAdjust(catalog, pathway,
                                           facts.stepsTaken)
          /\ currentPathway' = Some(adjusted)
          /\ sessionStatus' = "pathway"
          /\ pathwayCards' = TRUE
          /\ sessions' = saveSession(sessionId, "pathway",
                                     conversationHistory, extractedFacts,
                                     resolvedBodies, Some(adjusted), sessions)

\* The gate showSafeguardingGate(concernType) inserts.
showSafeguardingGate(concernType) ==
  IF concernType \in SERIOUS_CONCERNS
  THEN gates' = [ gates EXCEPT !.serious = TRUE ]
  ELSE /\ gates.open < MaxGates
       /\ gates' = [ gates EXCEPT !.open = @ + 1 ]

\* click on #confirm-summary of the card that closes over facts with the
\* given safeguardingConcern
confirmSummaryClick(concern) ==
  /\ view = "chat"
  /\ concern \in summaryCards
  /\ IF isFlagged(concern)
     THEN /\ showSafeguardingGate(concern)
          /\ UNCHANGED << currentPathway, sessionStatus, pathwayCards,
                          sessions, catalog >>
     ELSE /\ handleConfirmSummary
          /\ UNCHANGED gates
  /\ UNCHANGED << conversationHistory, extractedFacts, resolvedBodies,
                  sessionId, callVars, consentVars, isSending, nextId, view,
                  summaryCards, fallbackCard >>
  /\ UNCHANGED << resetSinceSend, routerVars, calcVars >>

\* click on #gate-go-home of a serious gate
gateGoHome ==
  /\ view = "chat"
  /\ gates.serious
  /\ view' = "landing"
  /\ UNCHANGED << memVars, domVars, callVars, consentVars, isSending,
                  nextId, sessions >>
  /\ UNCHANGED << catalog, resetSinceSend, routerVars, calcVars >>

\* click on #gate-acknowledge of a gate whose buttons are enabled
gateAcknowledge ==
  /\ view = "chat"
  /\ gates.open > 0
  /\ gates' = [ gates EXCEPT !.open = @ - 1, !.acknowledged = TRUE ]
  /\ handleConfirmSummary
  /\ UNCHANGED << conversationHistory, extractedFacts, resolvedBodies,
                  sessionId, callVars, consentVars, isSending, nextId, view,
                  summaryCards, fallbackCard >>
  /\ UNCHANGED << resetSinceSend, routerVars, calcVars >>

\* click on #gate-pause of a gate whose buttons are enabled
gatePause ==
  /\ view = "chat"
  /\ gates.open > 0
  /\ gates' = [ gates EXCEPT !.open = @ - 1 ]
  /\ sessions' = saveSession(sessionId, sessionStatus, conversationHistory,
                             extractedFacts, resolvedBodies, currentPathway,
                             sessions)
  /\ UNCHANGED << memVars, callVars, consentVars, isSending, nextId, view,
                  summaryCards, pathwayCards, fallbackCard >>
  /\ UNCHANGED << catalog, resetSinceSend, routerVars, calcVars >>

\* handleGenerateLetter up to its await: click on #generate-letter
handleGenerateLetter ==
  /\ view = "chat"
  /\ pathwayCards
  /\ IF IsNull(extractedFacts) \/ IsNull(currentPathway)
     THEN UNCHANGED vars
     ELSE /\ calls < MaxCalls
          /\ calls' = calls + 1
          /\ pendingLetters' = pendingLetters + 1
          /\ UNCHANGED << memVars, domVars, consentVars, isSending, nextId,
                          view, sessions, pendingGreetings, sendPc,
                          sendFacts >>
  /\ UNCHANGED << catalog, resetSinceSend, routerVars, calcVars >>

\* handleGenerateLetter after `await generateOnce(...)` returned the letter.
\* With extractedFacts null, reading extractedFacts.postcode throws after
\* the status and the view were set; the catch block reports the error.
letterReply ==
  /\ pendingLetters > 0
  /\ pendingLetters' = pendingLetters - 1
  /\ sessionStatus' = "letter"
  /\ view' = "letter"
  /\ sessions' = IF IsNull(extractedFacts) THEN sessions
                 ELSE saveSession(sessionId, "letter", conversationHistory,
                                  extractedFacts, resolvedBodies,
                                  currentPathway, sessions)
  /\ UNCHANGED << conversationHistory, extractedFacts, currentPathway,
                  resolvedBodies, sessionId, domVars, consentVars, isSending,
                  nextId, pendingGreetings, sendPc, sendFacts, calls >>
  /\ UNCHANGED << catalog, resetSinceSend, routerVars, calcVars >>

\* handleGenerateLetter when generateOnce threw
letterFail ==
  /\ pendingLetters > 0
  /\ pendingLetters' = pendingLetters - 1
  /\ UNCHANGED << memVars, domVars, consentVars, isSending, nextId, view,
                  sessions, pendingGreetings, sendPc, sendFacts, calls >>
  /\ UNCHANGED << catalog, resetSinceSend, routerVars, calcVars >>

\* ------------------------------------------------------ letter and diary
\* handleBackToChat: the letter-back button
handleBackToChat ==
  /\ view = "letter"
  /\ view' = "chat"
  /\ UNCHANGED << memVars, domVars, callVars, consentVars, isSending,
                  nextId, sessions >>
  /\ UNCHANGED << catalog, resetSinceSend, routerVars, calcVars >>

\* showDiary, from the pathway card's diary button
showDiary ==
  /\ view = "chat"
  /\ pathwayCards
  /\ view' = "diary"
  /\ UNCHANGED << memVars, domVars, callVars, consentVars, isSending,
                  nextId, sessions >>
  /\ UNCHANGED << catalog, resetSinceSend, routerVars, calcVars >>

handleDiaryBack ==
  /\ view = "diary"
  /\ view' = IF sessionStatus = "letter" THEN "letter" ELSE "chat"
  /\ UNCHANGED << memVars, domVars, callVars, consentVars, isSending,
                  nextId, sessions >>
  /\ UNCHANGED << catalog, resetSinceSend, routerVars, calcVars >>

\* click on the diary form's save button, the title filled in:
\* addDiaryEntry -> saveDiaryEntries writes the item of getDiaryKey()
diarySave ==
  /\ view = "diary"
  /\ \E pos \in 1..(Len(lsKeys) + 1) :
       lsKeys' = setItem(lsKeys, DiaryKey(sessionId), pos)
  /\ UNCHANGED << memVars, domVars, callVars, consentVars, isSending,
                  nextId, view, sessions >>
  /\ UNCHANGED << catalog, resetSinceSend, routerVars, calcCall, calcResult,
                  lsSessions, lsPc >>

\* ------------------------------------------------------ the specification
Next ==
  \/ handleStart
  \/ \E checked \in BOOLEAN : toggleConsentCheck(checked)
  \/ consentAccept
  \/ handleDeleteAllData
  \/ \E id \in 1..MaxSessions : deleteSession(id)
  \/ \E id \in 1..MaxSessions : handleResume(id)
  \/ handleBackToLanding
  \/ greetingReply
  \/ greetingFail
  \/ handleSend
  \/ \E r \in Replies : sendReply(r)
  \/ \E c \in LookupCountries \cup { Absent } : postcodeDone(c)
  \/ sendFail
  \/ \E b \in FallbackBodies : fallbackSelect(b)
  \/ \E c \in Concerns \cup { Absent } : confirmSummaryClick(c)
  \/ gateGoHome
  \/ gateAcknowledge
  \/ gatePause
  \/ handleGenerateLetter
  \/ letterReply
  \/ letterFail
  \/ handleBackToChat
  \/ showDiary
  \/ handleDiaryBack
  \/ diarySave

Spec == Init /\ [][Next]_vars

\* The continuation of handleSend after an await: the promise of
\* sendMessage or of lookupPostcode has settled.
SendSettles ==
  \/ \E r \in Replies : sendReply(r)
  \/ \E c \in LookupCountries \cup { Absent } : postcodeDone(c)
  \/ sendFail

\* The controller with every awaited promise of handleSend settling.
LiveSpec == Spec /\ WF_vars(SendSettles)

\* ------------------------------------------------- the router on its own
\* getPathway and adjustForStepsTaken called directly, as exported by
\* router.js, on arguments drawn from the sets below.
controllerVars ==
  << memVars, domVars, consentVars, callVars, isSending, nextId, view,
     sessions, resetSinceSend >>

\* Body types with a base entry in the catalog.
SupportedBodyTypes ==
  { "nhs_trust", "gp", "social_care", "council", "police", "school", "dwp",
    "hmrc", "other_gov" }

\* Strings with no entry in the catalog.
UnknownBodyTypes == { "parish_council", "" }

RouterBodyTypes ==
  SupportedBodyTypes \cup UnknownBodyTypes \cup ObjectPrototypeKeys
    \cup { Absent }

DevolvedNations == { "Scotland", "Wales", "Northern Ireland" }

RouterNations == DevolvedNations \cup { "England", "Isle of Man", Absent }

RouterComplaintTypes == { "decision", "service", "general", Absent }

RouterArgs ==
  [ bodyType : RouterBodyTypes, complaintType : RouterComplaintTypes,
    nation : RouterNations, stepsTaken : StepsTexts ]

RouterInit ==
  /\ PageLoad
  /\ CalcIdle
  /\ rArgs \in RouterArgs
  /\ rTemplate = Null
  /\ rInstance = Null
  /\ rThrown = FALSE

callGetPathway ==
  /\ IsNull(rTemplate)
  /\ rTemplate' = Some(getPathway(rArgs.bodyType, rArgs.complaintType,
                                  rArgs.nation))
  /\ UNCHANGED << controllerVars, catalog, rArgs, rInstance, rThrown,
                  calcVars >>

callAdjustForStepsTaken ==
  /\ ~IsNull(rTemplate)
  /\ IsNull(rInstance)
  /\ ~rThrown
  /\ IF adjustForStepsTakenThrows(Val(rTemplate), rArgs.stepsTaken)
     THEN /\ rThrown' = TRUE
          /\ UNCHANGED rInstance
     ELSE /\ rInstance' = Some(adjustForStepsTaken(Val(rTemplate),
                                                   rArgs.stepsTaken))
          /\ UNCHANGED rThrown
  /\ catalog' = catalogAfterAdjust(catalog, Val(rTemplate),
                                   rArgs.stepsTaken)
  /\ UNCHANGED << controllerVars, rArgs, rTemplate, calcVars >>

\* The caller instantiates the same template again, for another text.
nextAdjustCall(stepsTaken) ==
  /\ ~IsNull(rInstance) \/ rThrown
  /\ rArgs' = [ rArgs EXCEPT !.stepsTaken = stepsTaken ]
  /\ rInstance' = Null
  /\ rThrown' = FALSE
  /\ UNCHANGED << controllerVars, catalog, rTemplate, calcVars >>

RouterNext ==
  \/ callGetPathway
  \/ callAdjustForStepsTaken
  \/ \E stepsTaken \in StepsTexts : nextAdjustCall(stepsTaken)

RouterSpec == RouterInit /\ [][RouterNext]_vars

\* ------------------------------------------------- dates and the calendar
\* A calendar date, as the local fields of a JavaScript Date.
Date(y, m, d) == [ y |-> y, m |-> m, d |-> d ]

IsLeapYear(y) == y % 4 = 0 /\ (y % 100 # 0 \/ y % 400 = 0)

DaysInMonth(y, m) ==
  CASE m \in { 4, 6, 9, 11 } -> 30
    [] m = 2 -> (IF IsLeapYear(y) THEN 29 ELSE 28)
    [] OTHER -> 31

\* result.setDate(result.getDate() + 1)
NextDay(date) ==
  IF date.d < DaysInMonth(date.y, date.m)
  THEN Date(date.y, date.m, date.d + 1)
  ELSE IF date.m < 12 THEN Date(date.y, date.m + 1, 1)
  ELSE Date(date.y + 1, 1, 1)

PrevDay(date) ==
  IF date.d > 1 THEN Date(date.y, date.m, date.d - 1)
  ELSE IF date.m > 1
       THEN Date(date.y, date.m - 1, DaysInMonth(date.y, date.m - 1))
  ELSE Date(date.y - 1, 12, 31)

\* Leap days in the years 1..y.
LeapDaysThrough(y) == (y \div 4) - (y \div 100) + (y \div 400)

RECURSIVE DaysBeforeMonth(_, _)
DaysBeforeMonth(y, m) ==
  IF m = 1 THEN 0
  ELSE DaysBeforeMonth(y, m - 1) + DaysInMonth(y, m - 1)

\* Days from 1 January 2000 to the date.
DayNumber(date) ==
  365 * (date.y - 2000)
    + (LeapDaysThrough(date.y - 1) - LeapDaysThrough(1999))
    + DaysBeforeMonth(date.y, date.m) + (date.d - 1)

\* Date.prototype.getDay: 0 is Sunday, 6 Saturday (1 January 2000 was a
\* Saturday).
getDay(date) == (DayNumber(date) + 6) % 7

\* result.toISOString().slice(0, 10): the calendar date in UTC of the
\* instant whose local date is `date` and local hour `hour`, in a zone
\* `offset` hours ahead of UTC.
toISODate(date, hour, offset) ==
  IF hour - offset < 0 THEN PrevDay(date)
  ELSE IF hour - offset >= 24 THEN NextDay(date)
  ELSE date

UK_BANK_HOLIDAYS ==
  { Date(2025, 1, 1), Date(2025, 4, 18), Date(2025, 4, 21),
    Date(2025, 5, 5), Date(2025, 5, 26), Date(2025, 8, 25),
    Date(2025, 12, 25), Date(2025, 12, 26),
    Date(2026, 1, 1), Date(2026, 4, 3), Date(2026, 4, 6), Date(2026, 5, 4),
    Date(2026, 5, 25), Date(2026, 8, 31), Date(2026, 12, 25),
    Date(2026, 12, 28) }

\* The body of addWorkingDays's while loop, run until added reaches days.
RECURSIVE WalkWorkingDays(_, _, _, _, _)
WalkWorkingDays(result, added, days, hour, offset) ==
  IF added >= days THEN result
  ELSE LET next == NextDay(result)
           dayOfWeek == getDay(next)
           dateStr == toISODate(next, hour, offset)
       IN IF /\ dayOfWeek # 0
             /\ dayOfWeek # 6
             /\ dateStr \notin UK_BANK_HOLIDAYS
          THEN WalkWorkingDays(next, added + 1, days, hour, offset)
          ELSE WalkWorkingDays(next, added, days, hour, offset)

\* addWorkingDays(fromDate, days) for a fromDate with the given local date
\* and hour; the result keeps the hour.
addWorkingDays(fromDate, hour, offset, days) ==
  WalkWorkingDays(fromDate, 0, days, hour, offset)

\* addMonths: result.setMonth(result.getMonth() + months).  setMonth keeps
\* the day of the month; a day past the end of the target month carries
\* into the following month.
addMonths(fromDate, months) ==
  LET index == (fromDate.m - 1) + months
      y == fromDate.y + (index \div 12)
      m == (index % 12) + 1
      last == DaysInMonth(y, m)
  IN IF fromDate.d <= last THEN Date(y, m, fromDate.d)
     ELSE IF m < 12 THEN Date(y, m + 1, fromDate.d - last)
     ELSE Date(y + 1, 1, fromDate.d - last)

\* ---------------------------------------------- the deadline calculator
\* The durations d of 1, 6 and 12 for which the lower-cased timeLimit text
\* of the catalog entry includes `${d} month`.
TimeLimitMentions(key) ==
  CASE key = "school" -> {}
    [] key = "dwp_decision" -> { 1 }
    [] key = "dwp" -> { 1, 12 }
    [] key = "hmrc" -> { 6, 12 }
    [] key \in { "nhs_trust_ni", "gp_ni", "council_ni", "social_care_ni" } ->
         { 6 }
    [] OTHER -> { 12 }

\* The N that /(\d+)\s*working\s*day/i finds in the acknowledgmentTimeline
\* of step i of the entry; 0 when the pattern does not match.
AckWorkingDays(key, i) ==
  CASE << key, i >> \in
           { << "nhs_trust_wales", 1 >>, << "gp_wales", 1 >>,
             << "council_wales", 1 >>, << "social_care_wales", 1 >>,
             << "social_care_wales", 2 >>, << "nhs_trust_ni", 1 >>,
             << "gp_ni", 1 >>, << "social_care_ni", 1 >> } -> 2
    [] << key, i >> \in
           { << "nhs_trust", 2 >>, << "gp", 1 >>, << "gp", 2 >>,
             << "social_care", 1 >>, << "social_care", 2 >>,
             << "nhs_trust_scotland", 1 >>, << "gp_scotland", 1 >>,
             << "council_scotland", 1 >>, << "council_scotland", 2 >>,
             << "social_care_scotland", 1 >>,
             << "social_care_scotland", 2 >>, << "council_ni", 1 >> } -> 3
    [] << key, i >> \in
           { << "nhs_trust", 3 >>, << "gp", 3 >>, << "social_care", 3 >>,
             << "council", 1 >>, << "council", 2 >>, << "council", 3 >>,
             << "council", 4 >>, << "dwp_service", 1 >>,
             << "dwp_service", 3 >>, << "dwp", 3 >>, << "hmrc", 4 >>,
             << "nhs_trust_scotland", 2 >>, << "gp_scotland", 2 >>,
             << "council_scotland", 3 >>, << "social_care_scotland", 3 >>,
             << "nhs_trust_wales", 2 >>, << "gp_wales", 2 >>,
             << "council_wales", 2 >>, << "council_wales", 3 >>,
             << "social_care_wales", 3 >>, << "nhs_trust_ni", 2 >>,
             << "gp_ni", 2 >>, << "council_ni", 2 >>, << "police_ni", 1 >>,
             << "social_care_ni", 2 >>, << "other_gov", 1 >>,
             << "other_gov", 2 >> } -> 5
    [] << key, i >> \in
           { << "hmrc", 3 >>, << "police_scotland", 2 >> } -> 10
    [] << key, i >> \in
           { << "police", 1 >>, << "police", 2 >>,
             << "police_scotland", 1 >>, << "police_wales", 1 >>,
             << "police_wales", 2 >> } -> 15
    [] OTHER -> 0

\* The N that /(\d+)\s*working\s*day/i finds in the timeline of step i of
\* the entry; 0 when the pattern does not match.
TimelineWorkingDays(key, i) ==
  CASE << key, i >> \in
           { << "nhs_trust_ni", 1 >> } -> 2
    [] << key, i >> \in
           { << "gp", 1 >> } -> 3
    [] << key, i >> \in
           { << "council_scotland", 1 >> } -> 5
    [] << key, i >> \in
           { << "council_wales", 1 >> } -> 10
    [] << key, i >> \in
           { << "council", 1 >>, << "police", 1 >>, << "dwp_service", 1 >>,
             << "dwp", 3 >>, << "hmrc", 1 >>, << "hmrc", 2 >>,
             << "police_scotland", 1 >>, << "police_wales", 1 >> } -> 15
    [] << key, i >> \in
           { << "social_care", 1 >>, << "council", 2 >>,
             << "council", 3 >>, << "nhs_trust_scotland", 1 >>,
             << "gp_scotland", 1 >>, << "council_scotland", 2 >>,
             << "social_care_scotland", 1 >>, << "council_wales", 2 >>,
             << "social_care_wales", 1 >>, << "gp_ni", 1 >>,
             << "council_ni", 1 >>, << "social_care_ni", 1 >>,
             << "other_gov", 1 >> } -> 20
    [] << key, i >> \in
           { << "nhs_trust_wales", 1 >>, << "gp_wales", 1 >> } -> 30
    [] << key, i >> \in
           { << "nhs_trust", 2 >> } -> 40
    [] OTHER -> 0

\* The N that /(\d+)\s*month/i finds in the timeline of step i of the
\* entry; 0 when the pattern does not match.
TimelineMonths(key, i) ==
  CASE << key, i >> \in
           { << "nhs_trust", 2 >>, << "gp", 2 >>, << "social_care", 3 >>,
             << "council", 4 >> } -> 6
    [] << key, i >> \in
           { << "nhs_trust", 3 >>, << "gp", 3 >> } -> 12
    [] OTHER -> 0

\* An instant by its local calendar date and local hour.
Instant(date, hour) == [ date |-> date, hour |-> hour ]

\* The texts a date field of the facts is drawn from.
DateTexts ==
  { Absent, "2025-01-31", "31/08/2025", "03/04/2025", "15 March 2025",
    "March 2025", "last spring" }

\* new Date(dateStr), when valid with getFullYear() > 2000.  A date-only
\* ISO string is midnight UTC; the other formats are parsed as local time,
\* and the month-name formats only by engines with that fallback.
ParseDirect(dateStr, offset, engineParsesNames) ==
  CASE dateStr = "2025-01-31" -> Some(Instant(Date(2025, 1, 31), offset))
    [] dateStr = "03/04/2025" -> Some(Instant(Date(2025, 3, 4), 0))
    [] dateStr = "15 March 2025" /\ engineParsesNames ->
         Some(Instant(Date(2025, 3, 15), 0))
    [] dateStr = "March 2025" /\ engineParsesNames ->
         Some(Instant(Date(2025, 3, 1), 0))
    [] OTHER -> Null

\* The day / month / year pattern, and new Date(year, month - 1, day).
ParseUkFormat(dateStr) ==
  CASE dateStr = "31/08/2025" -> Some(Instant(Date(2025, 8, 31), 0))
    [] dateStr = "03/04/2025" -> Some(Instant(Date(2025, 4, 3), 0))
    [] dateStr = "2025-01-31" -> Some(Instant(Date(2031, 1, 25), 0))
    [] OTHER -> Null

\* The month-name pattern with its optional day.
ParseMonthName(dateStr) ==
  CASE dateStr = "15 March 2025" -> Some(Instant(Date(2025, 3, 15), 0))
    [] dateStr = "March 2025" -> Some(Instant(Date(2025, 3, 1), 0))
    [] OTHER -> Null

\* facts.dateSpecific || facts.dateRange
DateStrOf(dateSpecific, dateRange) ==
  IF dateSpecific \notin { Absent, "" } THEN dateSpecific ELSE dateRange

\* parseEventDate trying the day / month / year pattern before the direct
\* parse.
parseEventDate_ukFirst(dateSpecific, dateRange, offset, engineParsesNames) ==
  LET dateStr == DateStrOf(dateSpecific, dateRange)
  IN IF dateStr \in { Absent, "" } THEN Null
     ELSE IF ~IsNull(ParseUkFormat(dateStr)) THEN ParseUkFormat(dateStr)
     ELSE IF ~IsNull(ParseDirect(dateStr, offset, engineParsesNames))
          THEN ParseDirect(dateStr, offset, engineParsesNames)
     ELSE IF ~IsNull(ParseMonthName(dateStr)) THEN ParseMonthName(dateStr)
     ELSE Null

parseEventDate(dateSpecific, dateRange, offset, engineParsesNames) ==
  LET dateStr == DateStrOf(dateSpecific, dateRange)
  IN IF dateStr \in { Absent, "" } THEN Null
     ELSE IF ~IsNull(ParseDirect(dateStr, offset, engineParsesNames))
          THEN ParseDirect(dateStr, offset, engineParsesNames)
     ELSE IF ~IsNull(ParseUkFormat(dateStr)) THEN ParseUkFormat(dateStr)
     ELSE IF ~IsNull(ParseMonthName(dateStr)) THEN ParseMonthName(dateStr)
     ELSE Null

\* Math.ceil(x / y) for y > 0
CeilDiv(x, y) == -((-x) \div y)

\* (a - b) in hours, for two instants of the same zone
HoursBetween(a, b) ==
  (DayNumber(a.date) - DayNumber(b.date)) * 24 + (a.hour - b.hour)

\* the chain trying the longest duration first
SubmitMonths_longestFirst(key) ==
  IF 12 \in TimeLimitMentions(key) THEN 12
  ELSE IF 6 \in TimeLimitMentions(key) THEN 6
  ELSE IF 1 \in TimeLimitMentions(key) THEN 1
  ELSE 0

\* The months the if / else-if chain on the timeLimit text adds; 0 for none.
SubmitMonths(key) ==
  IF 1 \in TimeLimitMentions(key) THEN 1
  ELSE IF 6 \in TimeLimitMentions(key) THEN 6
  ELSE IF 12 \in TimeLimitMentions(key) THEN 12
  ELSE 0

\* The days remaining rounded down instead of up.
DaysRemaining_floor(submitBy, today) == HoursBetween(submitBy, today) \div 24

\* Math.ceil((deadlines.submitBy - today) / (1000 * 60 * 60 * 24))
DaysRemaining(submitBy, today) == CeilDiv(HoursBetween(submitBy, today), 24)

submitUrgent(daysRemaining) == daysRemaining <= 30

submitExpired(daysRemaining) == daysRemaining < 0

\* pathway.steps.find(s => s.current) || pathway.steps[0], as an index
CurrentStepIndex(pathway) ==
  IF \E i \in 1..Len(pathway.current) : pathway.current[i]
  THEN CHOOSE i \in 1..Len(pathway.current) :
         /\ pathway.current[i]
         /\ \A j \in 1..(i - 1) : ~pathway.current[j]
  ELSE 1

\* calculateDeadlines(facts, pathway), run at the instant today in a zone
\* `offset` hours ahead of UTC.
calculateDeadlines(dateSpecific, dateRange, pathway, today, offset, engineParsesNames) ==
  LET eventDate == parseEventDate(dateSpecific, dateRange, offset,
                                  engineParsesNames)
      months == SubmitMonths(pathway.key)
      submitBy == Instant(addMonths(Val(eventDate).date, months),
                          Val(eventDate).hour)
      step == CurrentStepIndex(pathway)
      ack == AckWorkingDays(pathway.key, step)
      respDays == TimelineWorkingDays(pathway.key, step)
      respMonths == TimelineMonths(pathway.key, step)
  IN IF IsNull(eventDate) THEN Null
     ELSE Some(
       [ submitBy |-> IF months = 0 THEN Null ELSE Some(submitBy),
         daysRemaining |->
           IF months = 0 THEN Null
           ELSE Some(DaysRemaining(submitBy, today)),
         submitUrgent |->
           IF months = 0 THEN Null
           ELSE Some(submitUrgent(DaysRemaining(submitBy, today))),
         submitExpired |->
           IF months = 0 THEN Null
           ELSE Some(submitExpired(DaysRemaining(submitBy, today))),
         acknowledgmentBy |->
           IF ack = 0 THEN Null
           ELSE Some(Instant(addWorkingDays(today.date, today.hour, offset,
                                            ack),
                             today.hour)),
         responseBy |->
           IF respDays # 0
           THEN Some(Instant(addWorkingDays(today.date, today.hour, offset,
                                            respDays),
                             today.hour))
           ELSE IF respMonths # 0
                THEN Some(Instant(addMonths(today.date, respMonths),
                                  today.hour))
           ELSE Null ])

\* Whether showPathwayCard renders the "Key Dates" section for the value
\* calculateDeadlines returned.
deadlinesHtml(deadlines) ==
  /\ ~IsNull(deadlines)
  /\ \/ ~IsNull(Val(deadlines).submitBy)
     \/ ~IsNull(Val(deadlines).acknowledgmentBy)
     \/ ~IsNull(Val(deadlines).responseBy)

\* ---- the calculator on its own
\* A direct call of one of the calculator's functions; the fields a
\* function does not take hold Absent or 0.
Call(fn, date, hour, offset, n, dateSpecific, dateRange, key, stepsTaken, engineParsesNames) ==
  [ fn |-> fn, date |-> date, hour |-> hour, offset |-> offset, n |-> n,
    dateSpecific |-> dateSpecific, dateRange |-> dateRange, key |-> key,
    stepsTaken |-> stepsTaken, engineParsesNames |-> engineParsesNames ]

\* Hours by which the local zone is ahead of UTC: GMT and BST.
ZoneOffsets == { 0, 1 }

\* Local hours of the day at which a call is made.
CallHours == { 0, 12 }

WorkingDayStarts ==
  { Date(2025, 4, 17), Date(2025, 12, 24), Date(2026, 4, 2),
    Date(2025, 8, 22) }

WorkingDayCounts == { 1, 2, 5, 15 }

MonthStarts ==
  { Date(2025, 1, 31), Date(2024, 1, 31), Date(2025, 8, 31),
    Date(2025, 3, 15), Date(2025, 10, 31), Date(2025, 12, 31) }

MonthCounts == { 1, 6, 12 }

Todays == { Date(2025, 4, 17), Date(2025, 8, 31), Date(2026, 1, 30) }

DeadlineKeys ==
  { "nhs_trust", "gp", "school", "dwp_decision", "dwp", "hmrc",
    "nhs_trust_ni", "police_ni" }

DeadlineStepsTexts ==
  { "none", "I spoke to someone on the phone",
    "I called them and then went to the ombudsman" }

CalcCalls ==
  { Call("addWorkingDays", d, h, o, n, Absent, Absent, Absent, Absent,
         FALSE) :
      d \in WorkingDayStarts, h \in CallHours, o \in ZoneOffsets,
      n \in WorkingDayCounts }
  \cup { Call("addMonths", d, 0, 0, n, Absent, Absent, Absent, Absent,
              FALSE) :
           d \in MonthStarts, n \in MonthCounts }
  \cup { Call("parseEventDate", Date(2025, 4, 17), 0, o, 0, ds, dr, Absent,
              Absent, e) :
           o \in ZoneOffsets, ds \in DateTexts, dr \in DateTexts,
           e \in BOOLEAN }
  \cup { Call("calculateDeadlines", d, h, o, 0, ds, dr, k, st, e) :
           d \in Todays, h \in CallHours, o \in ZoneOffsets,
           ds \in DateTexts, dr \in { Absent, "March 2025" },
           k \in DeadlineKeys, st \in DeadlineStepsTexts,
           e \in BOOLEAN }

DeadlineInit ==
  /\ PageLoad
  /\ RouterIdle
  /\ calcCall \in { Some(c) : c \in CalcCalls }
  /\ calcResult = Null
  /\ lsSessions = << >>
  /\ lsKeys = << >>
  /\ lsPc = "loaded"

callAddWorkingDays ==
  /\ IsNull(calcResult)
  /\ Val(calcCall).fn = "addWorkingDays"
  /\ LET c == Val(calcCall)
     IN calcResult' = Some(addWorkingDays(c.date, c.hour, c.offset, c.n))
  /\ UNCHANGED << controllerVars, catalog, routerVars, calcCall,
                  lsSessions, lsKeys, lsPc >>

callAddMonths ==
  /\ IsNull(calcResult)
  /\ Val(calcCall).fn = "addMonths"
  /\ LET c == Val(calcCall)
     IN calcResult' = Some(addMonths(c.date, c.n))
  /\ UNCHANGED << controllerVars, catalog, routerVars, calcCall,
                  lsSessions, lsKeys, lsPc >>

\* The value a call of parseEventDate returned; Some(Null) for null.
callParseEventDate ==
  /\ IsNull(calcResult)
  /\ Val(calcCall).fn = "parseEventDate"
  /\ LET c == Val(calcCall)
     IN calcResult' =
          Some(parseEventDate(c.dateSpecific, c.dateRange, c.offset,
                              c.engineParsesNames))
  /\ UNCHANGED << controllerVars, catalog, routerVars, calcCall,
                  lsSessions, lsKeys, lsPc >>

\* The pathway instance the controller passes: the template adjusted for
\* the steps taken.
CallPathway(c) == adjustForStepsTaken(catalog[c.key], c.stepsTaken)

\* The value a call of calculateDeadlines returned; Some(Null) for null.
callCalculateDeadlines ==
  /\ IsNull(calcResult)
  /\ Val(calcCall).fn = "calculateDeadlines"
  /\ LET c == Val(calcCall)
     IN calcResult' =
          Some(calculateDeadlines(c.dateSpecific, c.dateRange,
                                  CallPathway(c), Instant(c.date, c.hour),
                                  c.offset, c.engineParsesNames))
  /\ UNCHANGED << controllerVars, catalog, routerVars, calcCall,
                  lsSessions, lsKeys, lsPc >>

DeadlineNext ==
  \/ callAddWorkingDays
  \/ callAddMonths
  \/ callParseEventDate
  \/ callCalculateDeadlines

DeadlineSpec == DeadlineInit /\ [][DeadlineNext]_vars

\* ---- the stored sessions and diaries on their own
\* Sessions the storage scenarios create.
MaxStored == 3

\* Days of a step of time, and the age at which time stops.
DayStep == 15

MaxAgeDays == 45

\* SESSION_MAX_AGE_MS, in days
SESSION_MAX_AGE_DAYS == 30

\* sessions.filter(s => (now - updated) < SESSION_MAX_AGE_MS)
RECURSIVE ValidSessions(_)
ValidSessions(ss) ==
  IF ss = << >> THEN << >>
  ELSE IF Head(ss).age < SESSION_MAX_AGE_DAYS
       THEN << Head(ss) >> \o ValidSessions(Tail(ss))
       ELSE ValidSessions(Tail(ss))

\* for (let i = 0; i < localStorage.length; i++): the diary key at index i
\* is removed when its session is not valid, and the loop goes on to index
\* i + 1 of the shortened list.
RECURSIVE PurgeDiaryKeys(_, _, _)
PurgeDiaryKeys(keys, i, validIds) ==
  IF i > Len(keys) THEN keys
  ELSE IF keys[i].kind = "diary" /\ keys[i].id \notin validIds
       THEN PurgeDiaryKeys(RemoveAt(keys, i), i + 1, validIds)
       ELSE PurgeDiaryKeys(keys, i + 1, validIds)

\* saveSession() of a session, as far as the stored list and its item go.
storeSession(id) ==
  /\ \E pos \in 1..(Len(lsKeys) + 1) :
       lsKeys' = setItem(lsKeys, SessionsKey, pos)
  /\ LET existing == SessionIndex(lsSessions, id)
         sessionData == [ id |-> id, age |-> 0 ]
         updated == IF existing > 0
                    THEN [ lsSessions EXCEPT ![existing] = sessionData ]
                    ELSE << sessionData >> \o lsSessions
     IN lsSessions' = IF Len(updated) > MAX_SESSIONS
                      THEN SubSeq(updated, 1, MAX_SESSIONS)
                      ELSE updated
  /\ lsPc' = "running"
  /\ UNCHANGED << controllerVars, catalog, routerVars, calcCall, calcResult >>

\* addDiaryEntry() while the session `id` is the running one
addDiaryEntry(id) ==
  /\ id \in StoredIds(lsSessions)
  /\ \E pos \in 1..(Len(lsKeys) + 1) :
       lsKeys' = setItem(lsKeys, DiaryKey(id), pos)
  /\ lsPc' = "running"
  /\ UNCHANGED << controllerVars, catalog, routerVars, calcCall, calcResult,
                  lsSessions >>

\* deleteSession(id), as far as the stored list and the diary item go
deleteSessionItems(id) ==
  /\ id \in StoredIds(lsSessions)
  /\ lsSessions' = SelectSeq(lsSessions, LAMBDA s : s.id # id)
  /\ lsKeys' = removeItem(lsKeys, DiaryKey(id))
  /\ lsPc' = "running"
  /\ UNCHANGED << controllerVars, catalog, routerVars, calcCall, calcResult >>

\* DayStep days go by without a save.
timePasses ==
  /\ lsSessions # << >>
  /\ \A i \in 1..Len(lsSessions) : lsSessions[i].age < MaxAgeDays
  /\ lsSessions' =
       [ i \in 1..Len(lsSessions) |->
           [ lsSessions[i] EXCEPT !.age = @ + DayStep ] ]
  /\ lsPc' = "running"
  /\ UNCHANGED << controllerVars, catalog, routerVars, calcCall, calcResult,
                  lsKeys >>

\* purgeExpiredSessions(), run when the page is loaded
purgeExpiredSessions ==
  /\ LET valid == ValidSessions(lsSessions)
     IN IF Len(valid) # Len(lsSessions)
        THEN /\ lsKeys' = PurgeDiaryKeys(lsKeys, 1, StoredIds(valid))
             /\ lsSessions' = valid
        ELSE UNCHANGED << lsKeys, lsSessions >>
  /\ lsPc' = "purged"
  /\ UNCHANGED << controllerVars, catalog, routerVars, calcCall, calcResult >>

StorageNext ==
  \/ \E id \in 1..MaxStored : storeSession(id)
  \/ \E id \in 1..MaxStored : addDiaryEntry(id)
  \/ \E id \in 1..MaxStored : deleteSessionItems(id)
  \/ timePasses
  \/ purgeExpiredSessions

StorageSpec == Init /\ [][StorageNext]_vars


\* ---- what is passed to the AI service
\* The texts a user message is drawn from.
UserTexts ==
  { "I waited six hours in A&E",
    "my NHS number is 943 476 5919",
    "my NHS number is 9434765919",
    "my NHS number is 943-476-5919",
    "my NI number is AB 12 34 56 C",
    "my NI number is ab123456c" }

\* redactIdentifiers leaving every text as it is
redactIdentifiers_identity(text) == text

\* The two REDACT_PATTERNS applied in turn: ten digits in groups of 3, 3
\* and 4 separated by at most one white-space character, and two letters,
\* six digits and a letter A-D with the same separators, case ignored.
redactIdentifiers(text) ==
  CASE text \in { "my NHS number is 943 476 5919",
                  "my NHS number is 9434765919" } ->
         "my NHS number is [NHS_NUMBER]"
    [] text \in { "my NI number is AB 12 34 56 C",
                  "my NI number is ab123456c" } ->
         "my NI number is [NI_NUMBER]"
    [] OTHER -> text

Message(role, text) == [ role |-> role, text |-> text ]

redactHistory(history) ==
  [ i \in 1..Len(history) |->
      Message(history[i].role, redactIdentifiers(history[i].text)) ]

\* The reply of the AI service to a message.
ModelReply == "Thank you. Can you tell me more?"

Turn(text) == << Message("user", text), Message("model", ModelReply) >>

\* Conversations of up to two earlier turns, as handleSend stored them.
Histories ==
  { << >> } \cup { Turn(t) : t \in UserTexts }
    \cup { Turn(t) \o Turn(u) : t \in UserTexts, u \in UserTexts }

\* What handleSend passes to sendMessage for the input `text`, and the
\* conversationHistory it keeps once the reply has come.
sendPayload(history, text) ==
  [ sent |-> redactHistory(history) \o
               << Message("user", redactIdentifiers(text)) >>,
    kept |-> history \o Turn(text) ]

\* The fields of the facts that hold free text of the conversation, as
\* the AI service can give them: it has seen the texts as they were sent.
FactsDetails == { redactIdentifiers(t) : t \in UserTexts }

\* buildLetterPrompt and the prompt of handleGenerateMPLetter: the texts
\* of the facts are interpolated as they are.
letterPayload(details) ==
  [ sent |-> << Message("user", details) >>, kept |-> << >> ]

PromptCall(fn, history, text) ==
  [ fn |-> fn, history |-> history, text |-> text ]

PromptCalls ==
  { PromptCall("handleSend", h, t) : h \in Histories, t \in UserTexts }
    \cup { PromptCall(fn, << >>, d) :
             fn \in { "buildLetterPrompt", "handleGenerateMPLetter" },
             d \in FactsDetails }

PromptInit ==
  /\ PageLoad
  /\ RouterIdle
  /\ calcCall \in { Some(c) : c \in PromptCalls }
  /\ calcResult = Null
  /\ lsSessions = << >>
  /\ lsKeys = << >>
  /\ lsPc = "loaded"

callSendPayload ==
  /\ IsNull(calcResult)
  /\ Val(calcCall).fn = "handleSend"
  /\ calcResult' = Some(sendPayload(Val(calcCall).history, Val(calcCall).text))
  /\ UNCHANGED << controllerVars, catalog, routerVars, calcCall,
                  lsSessions, lsKeys, lsPc >>

callLetterPayload ==
  /\ IsNull(calcResult)
  /\ Val(calcCall).fn \in { "buildLetterPrompt", "handleGenerateMPLetter" }
  /\ calcResult' = Some(letterPayload(Val(calcCall).text))
  /\ UNCHANGED << controllerVars, catalog, routerVars, calcCall,
                  lsSessions, lsKeys, lsPc >>

PromptNext ==
  \/ callSendPayload
  \/ callLetterPayload

PromptSpec == PromptInit /\ [][PromptNext]_vars

TypeOK ==
  /\ sessionStatus \in { "intake", "summary", "pathway", "letter" }
  /\ view \in { "landing", "chat", "letter", "diary" }
  /\ isSending \in BOOLEAN
  /\ sendPc \in { "idle", "awaitReply", "awaitPostcode" }
  /\ Len(conversationHistory) <= 2 * MaxCalls
  /\ calls \in 0..MaxCalls
  /\ gates.open <= MaxGates
  /\ sessionId \in 0..MaxSessions

\* ------------------------------------------------ vocabulary of the claims
HasConcern(facts, cs) ==
  /\ ~IsNull(facts)
  /\ Val(facts).safeguardingConcern \in cs

SeriousFacts == HasConcern(extractedFacts, SERIOUS_CONCERNS)

RegulatoryFacts == HasConcern(extractedFacts, { "regulatory" })

Progressed == sessionStatus \in { "pathway", "letter" }

\* The step is a click on a summary card's confirm button.
ConfirmStep == \E c \in Concerns \cup { Absent } : confirmSummaryClick(c)

\* The step runs handleConfirmSummary: from a card whose facts carry no
\* concern, or from a gate's acknowledge button.
ConfirmSummaryCalled ==
  \/ \E c \in { "none", "", Absent } : confirmSummaryClick(c)
  \/ gateAcknowledge

ResumeStep == \E id \in 1..MaxSessions : handleResume(id)

FallbackStep == \E b \in FallbackBodies : fallbackSelect(b)

SendReplyStep == \E r \in Replies : sendReply(r)

Rank(status) ==
  CASE status = "intake" -> 0
    [] status = "summary" -> 1
    [] status = "pathway" -> 2
    [] status = "letter" -> 3

\* ------------------------------------------------------------------ claims

\* C1: whenever the current facts carry a serious safeguarding concern
\* (emergency, crime, child_safeguarding, adult_safeguarding), the session
\* status is neither 'pathway' nor 'letter'.
C1_SeriousNeverProgresses == SeriousFacts => ~Progressed

\* C2: a run of handleConfirmSummary on facts with a serious concern leaves
\* sessionStatus and currentPathway unchanged, whoever the caller is.
C2_ConfirmRejectsSerious ==
  [][ (SeriousFacts /\ ConfirmSummaryCalled)
        => UNCHANGED << sessionStatus, currentPathway >> ]_vars

\* C3: with regulatory facts the status becomes 'pathway' only by the click
\* on the acknowledge button of a displayed notice (resuming a stored
\* session aside).
C3_RegulatoryNeedsAcknowledgement ==
  [][ ( /\ sessionStatus # "pathway"
        /\ sessionStatus' = "pathway"
        /\ RegulatoryFacts'
        /\ ~ResumeStep )
        => gateAcknowledge ]_vars

\* C4: with regulatory facts, once a notice was acknowledged in the session
\* (a gate on screen shows 'Acknowledged'), no further confirm or
\* acknowledge click moves the status to 'pathway' again.
C4_RegulatoryTransitionOnce ==
  [][ ( /\ gates.acknowledged
        /\ RegulatoryFacts
        /\ sessionStatus # "pathway"
        /\ (ConfirmStep \/ gateAcknowledge) )
        => sessionStatus' # "pathway" ]_vars

\* C5: once a serious gate blocks the session at the summary stage, no step
\* of that session takes the status to 'pathway' or 'letter'; only a restart
\* (status back to 'intake') leaves the blocked state.
C5_SeriousBlockIsTerminal ==
  [][ ( /\ gates.serious
        /\ sessionStatus = "summary"
        /\ ~ResumeStep )
        => sessionStatus' \in { "summary", "intake" } ]_vars

\* C6: within a session the status only moves forward along
\* intake, summary, pathway, letter; a reset puts it back to 'intake'.
C6_StatusOnlyForward ==
  [][ \/ Rank(sessionStatus') >= Rank(sessionStatus)
      \/ sessionStatus' = "intake"
      \/ ResumeStep ]_vars

C8_FactsExactlyOnCompleteBlock ==
  [][ \A r \in Replies :
        sendReply(r) =>
          IF /\ r.block
             /\ r.parses
             /\ r.extractionComplete
             /\ ~IsNull(r.facts)
          THEN /\ sessionStatus' = "summary"
               /\ extractedFacts' = r.facts
          ELSE /\ extractFacts(r) = Null
               /\ UNCHANGED << extractedFacts, sessionStatus >> ]_vars

\* C8 witness: a complete block has been received and its facts are the
\* session's facts, in status 'summary'.
C8_Witness ==
  /\ sessionStatus = "summary"
  /\ extractedFacts \in { Some(f) : f \in AiFacts }
  /\ Len(conversationHistory) >= 2
  /\ sendPc = "idle"
  /\ summaryCards # {}

\* C9: status 'letter' implies that facts and a resolved pathway exist.
C9_LetterHasFactsAndPathway ==
  sessionStatus = "letter"
    => (~IsNull(extractedFacts) /\ ~IsNull(currentPathway))

\* C10: while a chat request is outstanding a further send changes nothing,
\* and no event other than the outstanding call's own reply replaces
\* extractedFacts.
C10_NoConcurrentFactUpdate ==
  [][ isSending =>
        /\ (handleSend => UNCHANGED vars)
        /\ (~SendReplyStep => UNCHANGED extractedFacts) ]_vars

\* The step is the lookup's completion inside handleSend.
PostcodeStep == \E c \in LookupCountries \cup { Absent } : postcodeDone(c)

\* C11: a chat reply that arrives after the session was reset (a new
\* complaint started, or all data deleted) is discarded: the step that
\* handles it changes neither conversationHistory, extractedFacts,
\* sessionStatus nor the stored records.
C11_StaleReplyDiscarded ==
  [][ (resetSinceSend /\ (SendReplyStep \/ PostcodeStep))
        => UNCHANGED << conversationHistory, extractedFacts, sessionStatus,
                        sessions >> ]_vars

\* ------------------------------------------------- claims on the router
\* The steps of a pathway value that are marked current.
CurrentSteps(pathway) ==
  { i \in 1..Len(pathway.current) : pathway.current[i] }

\* The template is an entry of the catalog.
IsCatalogTemplate(pathway) ==
  pathway.key \in PathwayKeys /\ pathway = catalog[pathway.key]

AdjustReturned == ~IsNull(rTemplate) /\ (~IsNull(rInstance) \/ rThrown)

\* C12: for every catalog template and every stepsTaken string,
\* adjustForStepsTaken returns without throwing, and exactly one step of
\* what it returns is current.
C12_ExactlyOneCurrent ==
  (AdjustReturned /\ IsCatalogTemplate(Val(rTemplate)))
    => /\ ~rThrown
       /\ Cardinality(CurrentSteps(Val(rInstance))) = 1

\* adjustForStepsTaken returned for a text with keywords of two classes.
C12_Witness ==
  /\ ~IsNull(rInstance)
  /\ IsCatalogTemplate(Val(rTemplate))
  /\ rArgs.stepsTaken = "I called them and then went to the ombudsman"
  /\ Val(rInstance).current[Len(Val(rInstance).current)]
  /\ Len(Val(rInstance).current) = 4

\* C13: for every body type and every nation, the template getPathway
\* returns has at least one step and exactly one step marked current.
\* (Body types are the catalog's and strings unknown to it; a name that
\* PATHWAYS inherits from Object.prototype is the case of C16.)
C13_TemplateHasOneDefault ==
  (~IsNull(rTemplate) /\ rArgs.bodyType \notin ObjectPrototypeKeys)
    => /\ Len(Val(rTemplate).current) >= 1
       /\ Cardinality(CurrentSteps(Val(rTemplate))) = 1

\* getPathway returned the one-step template of a devolved nation.
C13_Witness ==
  /\ ~IsNull(rTemplate)
  /\ rArgs.bodyType = "police"
  /\ rArgs.nation = "Northern Ireland"
  /\ Val(rTemplate).key = "police_ni"
  /\ Val(rTemplate).current = << TRUE >>

\* C14: for body type 'dwp', complaint type 'decision' gives the
\* decision-challenge template and 'service' the service-complaint
\* template, for every nation, an absent one included.
C14_DwpSpecialised ==
  (~IsNull(rTemplate) /\ rArgs.bodyType = "dwp")
    => /\ rArgs.complaintType = "decision"
            => Val(rTemplate) = catalog["dwp_decision"]
       /\ rArgs.complaintType = "service"
            => Val(rTemplate) = catalog["dwp_service"]

\* getPathway returned for a DWP decision in a devolved nation.
C14_Witness ==
  /\ ~IsNull(rTemplate)
  /\ rArgs.bodyType = "dwp"
  /\ rArgs.complaintType = "decision"
  /\ rArgs.nation = "Scotland"
  /\ Val(rTemplate).key = "dwp_decision"

\* The call is one of the two specialised DWP cases.
DwpCase(args) ==
  args.bodyType = "dwp" /\ args.complaintType \in { "decision", "service" }

\* The '{bodyType}_{suffix}' entries of the catalog, by body type and nation.
NationEntry(bodyType, nation) ==
  CASE nation = "Scotland" /\ bodyType = "nhs_trust" -> "nhs_trust_scotland"
    [] nation = "Scotland" /\ bodyType = "gp" -> "gp_scotland"
    [] nation = "Scotland" /\ bodyType = "council" -> "council_scotland"
    [] nation = "Scotland" /\ bodyType = "police" -> "police_scotland"
    [] nation = "Scotland" /\ bodyType = "social_care" ->
         "social_care_scotland"
    [] nation = "Wales" /\ bodyType = "nhs_trust" -> "nhs_trust_wales"
    [] nation = "Wales" /\ bodyType = "gp" -> "gp_wales"
    [] nation = "Wales" /\ bodyType = "council" -> "council_wales"
    [] nation = "Wales" /\ bodyType = "police" -> "police_wales"
    [] nation = "Wales" /\ bodyType = "social_care" -> "social_care_wales"
    [] nation = "Northern Ireland" /\ bodyType = "nhs_trust" ->
         "nhs_trust_ni"
    [] nation = "Northern Ireland" /\ bodyType = "gp" -> "gp_ni"
    [] nation = "Northern Ireland" /\ bodyType = "council" -> "council_ni"
    [] nation = "Northern Ireland" /\ bodyType = "police" -> "police_ni"
    [] nation = "Northern Ireland" /\ bodyType = "social_care" ->
         "social_care_ni"
    [] OTHER -> Absent

\* C15: outside the specialised DWP cases getPathway returns the
\* '{bodyType}_{suffix}' template when the nation is Scotland, Wales or
\* Northern Ireland and such an entry exists, and otherwise the base
\* template of the body type; police/Scotland gives the Police Scotland
\* template and police/England the base police template.
C15_NationSpecificOrBase ==
  (~IsNull(rTemplate) /\ ~DwpCase(rArgs))
    => LET entry == NationEntry(rArgs.bodyType, rArgs.nation)
       IN /\ entry # Absent => Val(rTemplate) = catalog[entry]
          /\ (entry = Absent /\ rArgs.bodyType \in SupportedBodyTypes)
               => Val(rTemplate) = catalog[rArgs.bodyType]
          /\ (rArgs.bodyType = "police" /\ rArgs.nation = "Scotland")
               => Val(rTemplate).key = "police_scotland"
          /\ (rArgs.bodyType = "police" /\ rArgs.nation = "England")
               => Val(rTemplate).key = "police"

\* getPathway returned the Police Scotland template.
C15_Witness ==
  /\ ~IsNull(rTemplate)
  /\ rArgs.bodyType = "police"
  /\ rArgs.nation = "Scotland"
  /\ rArgs.complaintType = Absent
  /\ Val(rTemplate) = catalog["police_scotland"]

\* C16: for any body type that has no catalog entry, getPathway returns
\* the generic other_gov template, for every complaint type and nation.
C16_UnknownBodyFallsBack ==
  (~IsNull(rTemplate) /\ rArgs.bodyType \notin PathwayKeys)
    => Val(rTemplate) = catalog["other_gov"]

\* C17: the pathway instance a session holds is a deep copy made by
\* adjustForStepsTaken, never the catalog template object itself.
C17_InstanceIsCopy ==
  ~IsNull(currentPathway) => Val(currentPathway).copy

\* C18: no sequence of controller operations, with the getPathway and
\* adjustForStepsTaken calls they make, in one session or across sessions,
\* changes a catalog template: every PATHWAYS entry keeps the steps and
\* current flags it was defined with.
C18_CatalogUnchanged ==
  catalog = [ key \in PathwayKeys |-> PATHWAYS(key) ]

\* A session holds an instance whose current step was moved off the
\* template's default, and an earlier session is stored.
C18_Witness ==
  /\ ~IsNull(currentPathway)
  /\ Val(currentPathway).key = "police_scotland"
  /\ CurrentSteps(Val(currentPathway)) = { 2 }
  /\ CurrentSteps(catalog["police_scotland"]) = { 1 }
  /\ sessionStatus = "pathway"
  /\ Len(sessions) = 2

\* The step an adjusted instance of n steps has for a text of the
\* formal/written class: the one after the first, clamped to the last.
StepAfterFirst(n) == IF n > 1 THEN 2 ELSE 1

\* C19: keyword classes apply in the order ombudsman-level, formal/written,
\* informal: a text with an ombudsman-level term marks the last step
\* whatever else it contains, and a text with formal and informal terms is
\* treated as formal.
C19_ClassPriority ==
  (~IsNull(rInstance) /\ IsCatalogTemplate(Val(rTemplate))
     /\ ~IsNoneText(rArgs.stepsTaken))
    => LET kws == KeywordsIn(rArgs.stepsTaken)
           n == Len(Val(rInstance).current)
           cur == CurrentSteps(Val(rInstance))
       IN /\ kws \cap OmbudsmanTerms # {} => cur = { n }
          /\ ( /\ kws \cap OmbudsmanTerms = {}
               /\ kws \cap FormalTerms # {}
               /\ kws \cap InformalTerms # {} )
               => cur = { StepAfterFirst(n) }

\* An instance of a three-step template for a text with an informal and an
\* ombudsman-level term: the last step is current.
C19_Witness ==
  /\ ~IsNull(rInstance)
  /\ Val(rTemplate) = catalog["nhs_trust"]
  /\ rArgs.stepsTaken = "I called them and then went to the ombudsman"
  /\ CurrentSteps(Val(rInstance)) = { 3 }

\* C20: a text of the formal/written class without an ombudsman-level term
\* marks the step after the first matching step index, clamped to the last
\* step; for 'I already made a formal written complaint' that is the step
\* immediately after the first step.
C20_FormalMarksNextStep ==
  (~IsNull(rInstance) /\ IsCatalogTemplate(Val(rTemplate))
     /\ KeywordsIn(rArgs.stepsTaken) \cap FormalTerms # {}
     /\ KeywordsIn(rArgs.stepsTaken) \cap OmbudsmanTerms = {})
    => LET n == Len(Val(rInstance).current)
       IN /\ Val(rInstance).copy
          /\ CurrentSteps(Val(rInstance)) = { StepAfterFirst(n) }

\* An instance of a four-step template for the formal written text.
C20_Witness ==
  /\ ~IsNull(rInstance)
  /\ Val(rTemplate) = catalog["council"]
  /\ rArgs.stepsTaken = "I already made a formal written complaint"
  /\ Val(rInstance).current = << FALSE, TRUE, FALSE, FALSE >>

\* C21: a text with informal-contact terms only marks the second step
\* current when the template has at least two steps, and the first step
\* otherwise.
C21_InformalMarksSecondStep ==
  (~IsNull(rInstance) /\ IsCatalogTemplate(Val(rTemplate))
     /\ KeywordsIn(rArgs.stepsTaken) # {}
     /\ KeywordsIn(rArgs.stepsTaken) \subseteq InformalTerms)
    => LET n == Len(Val(rTemplate).current)
       IN Val(rInstance).current
            = [ i \in 1..n |-> IF n >= 2 THEN i = 2 ELSE i = 1 ]

\* An instance of the one-step template for the informal text.
C21_Witness ==
  /\ ~IsNull(rInstance)
  /\ Val(rTemplate) = catalog["police_ni"]
  /\ rArgs.stepsTaken = "I spoke to someone on the phone"
  /\ Val(rInstance).copy
  /\ Val(rInstance).current = << TRUE >>

\* C22: for stepsTaken empty, absent or equal, ignoring case, to 'none' or
\* 'no', the result has the template's default current step; for a
\* non-empty text that matches no keyword class the first step is current.
C22_DefaultAndFirstStep ==
  (~IsNull(rInstance) /\ IsCatalogTemplate(Val(rTemplate)))
    => LET text == rArgs.stepsTaken
           key == Val(rTemplate).key
       IN /\ text \in { Absent, "", "none", "None", "NONE", "no", "No",
                         "NO" }
               => CurrentSteps(Val(rInstance)) = { DefaultCurrent(key) }
          /\ (text \notin { Absent, "" } /\ ~IsNoneText(text)
                 /\ KeywordsIn(text) = {})
               => CurrentSteps(Val(rInstance)) = { 1 }

\* An instance of a four-step template for a text without keywords.
C22_Witness ==
  /\ ~IsNull(rInstance)
  /\ Val(rTemplate) = catalog["school"]
  /\ rArgs.stepsTaken = "I emailed the manager"
  /\ Val(rInstance).current = << TRUE, FALSE, FALSE, FALSE >>

\* ---- vocabulary of the calculator's claims
Returned(fn) ==
  /\ ~IsNull(calcCall)
  /\ ~IsNull(calcResult)
  /\ Val(calcCall).fn = fn

\* A calendar day that is neither a Saturday or Sunday nor a listed holiday.
IsWorkingDay(date) ==
  /\ getDay(date) \notin { 0, 6 }
  /\ date \notin UK_BANK_HOLIDAYS

\* The n-th working day strictly after the calendar day `date`.
RECURSIVE NthWorkingDayAfter(_, _)
NthWorkingDayAfter(date, n) ==
  IF n = 0 THEN date
  ELSE IF IsWorkingDay(NextDay(date))
       THEN NthWorkingDayAfter(NextDay(date), n - 1)
       ELSE NthWorkingDayAfter(NextDay(date), n)

\* Month addition that clamps to the last day of the target month.
ClampedAddMonths(fromDate, months) ==
  LET index == (fromDate.m - 1) + months
      y == fromDate.y + (index \div 12)
      m == (index % 12) + 1
      last == DaysInMonth(y, m)
  IN Date(y, m, IF fromDate.d > last THEN last ELSE fromDate.d)

\* The deadlines object a call of calculateDeadlines returned.
Deadlines == Val(Val(calcResult))

DeadlinesReturned ==
  /\ Returned("calculateDeadlines")
  /\ ~IsNull(Val(calcResult))

\* The event date of the call, by the three attempts in their order.
AttemptsOf(c) ==
  << ParseDirect(DateStrOf(c.dateSpecific, c.dateRange), c.offset,
                 c.engineParsesNames),
     ParseUkFormat(DateStrOf(c.dateSpecific, c.dateRange)),
     ParseMonthName(DateStrOf(c.dateSpecific, c.dateRange)) >>

NoAttemptSucceeds(c) == \A i \in 1..3 : IsNull(AttemptsOf(c)[i])

FirstSuccess(c) ==
  AttemptsOf(c)[CHOOSE i \in 1..3 :
                  /\ ~IsNull(AttemptsOf(c)[i])
                  /\ \A j \in 1..(i - 1) : IsNull(AttemptsOf(c)[j])]

\* C23: addWorkingDays(d, N) with N >= 1 returns the N-th calendar day
\* strictly after d that is neither a Saturday or Sunday nor a listed bank
\* holiday; in particular addWorkingDays(2025-04-17, 1) is 2025-04-22.
C23_NthWorkingDay ==
  Returned("addWorkingDays") =>
    LET c == Val(calcCall)
        r == Val(calcResult)
    IN /\ DayNumber(r) > DayNumber(c.date)
       /\ r = NthWorkingDayAfter(c.date, c.n)
       /\ (c.date = Date(2025, 4, 17) /\ c.n = 1) => r = Date(2025, 4, 22)

\* C24: adding n calendar months to a date clamps at the end of the month:
\* when the day of the month does not exist in the target month the result
\* is the last day of the target month (2025-01-31 plus one month is
\* 2025-02-28), never a date of the following month.
C24_MonthAdditionClamps ==
  Returned("addMonths") =>
    LET c == Val(calcCall)
    IN /\ Val(calcResult) = ClampedAddMonths(c.date, c.n)
       /\ (c.date = Date(2025, 1, 31) /\ c.n = 1)
            => Val(calcResult) = Date(2025, 2, 28)

\* C25: when a submission deadline exists, daysRemaining is the least whole
\* number of days not less than (submitBy - today), submitUrgent holds
\* exactly when it is at most 30 and submitExpired exactly when it is
\* negative, so an expired deadline is urgent too; without a submission
\* deadline none of the three is set.
C25_DaysRemainingFlags ==
  DeadlinesReturned =>
    LET c == Val(calcCall)
        d == Deadlines
        today == Instant(c.date, c.hour)
    IN IF IsNull(d.submitBy)
       THEN /\ IsNull(d.daysRemaining)
            /\ IsNull(d.submitUrgent)
            /\ IsNull(d.submitExpired)
       ELSE LET hours == HoursBetween(Val(d.submitBy), today)
                n == Val(d.daysRemaining)
            IN /\ n * 24 >= hours
               /\ (n - 1) * 24 < hours
               /\ Val(d.submitUrgent) <=> (n <= 30)
               /\ Val(d.submitExpired) <=> (n < 0)
               /\ Val(d.submitExpired) => Val(d.submitUrgent)

\* A deadline that lies a fraction of a day ahead counts as one day
\* remaining, and one that lies a fraction of a day behind as none.
C25_Witness ==
  /\ DeadlinesReturned
  /\ ~IsNull(Deadlines.submitBy)
  /\ HoursBetween(Val(Deadlines.submitBy),
                  Instant(Val(calcCall).date, Val(calcCall).hour))
       \in 1..23
  /\ Val(Deadlines.daysRemaining) = 1
  /\ Val(Deadlines.submitUrgent)
  /\ ~Val(Deadlines.submitExpired)

C26_WitnessNull ==
  /\ Returned("calculateDeadlines")
  /\ Val(calcCall).dateSpecific = "last spring"
  /\ IsNull(Val(calcResult))

\* C27: submitBy is the event date plus 1, 6 or 12 calendar months, a
\* duration the pathway's time-limit text states, and is absent when the
\* text states none of them.
C27_SubmitByFromTimeLimit ==
  DeadlinesReturned =>
    LET c == Val(calcCall)
        stated == TimeLimitMentions(c.key) \cap { 1, 6, 12 }
        eventDate == Val(FirstSuccess(c))
    IN IF stated = {}
       THEN IsNull(Deadlines.submitBy)
       ELSE /\ ~IsNull(Deadlines.submitBy)
            /\ \E months \in stated :
                 Val(Deadlines.submitBy).date =
                   ClampedAddMonths(eventDate.date, months)

\* C28: acknowledgmentBy and responseBy come from the step marked current
\* in the pathway instance: "<N> working day(s)" in its text gives today
\* plus N working days, otherwise for the response "<N> month(s)" gives
\* today plus N calendar months, otherwise the value is absent.
C28_StepDeadlines ==
  DeadlinesReturned =>
    LET c == Val(calcCall)
        instance == CallPathway(c)
        step == CHOOSE i \in 1..Len(instance.current) : instance.current[i]
        ack == AckWorkingDays(c.key, step)
        respDays == TimelineWorkingDays(c.key, step)
        respMonths == TimelineMonths(c.key, step)
    IN /\ Cardinality(CurrentSteps(instance)) = 1
       /\ IF ack # 0
          THEN /\ ~IsNull(Deadlines.acknowledgmentBy)
               /\ Val(Deadlines.acknowledgmentBy).date =
                    NthWorkingDayAfter(c.date, ack)
          ELSE IsNull(Deadlines.acknowledgmentBy)
       /\ IF respDays # 0
          THEN /\ ~IsNull(Deadlines.responseBy)
               /\ Val(Deadlines.responseBy).date =
                    NthWorkingDayAfter(c.date, respDays)
          ELSE IF respMonths # 0
               THEN /\ ~IsNull(Deadlines.responseBy)
                    /\ Val(Deadlines.responseBy).date =
                         ClampedAddMonths(c.date, respMonths)
          ELSE IsNull(Deadlines.responseBy)

\* C29: every stored session record whose status is not 'intake' has an
\* empty conversationHistory: the conversation is stored only during intake
\* and dropped from the stored session once the facts are extracted.
C29_HistoryOnlyDuringIntake ==
  \A i \in 1..Len(sessions) :
    sessions[i].status # "intake" => sessions[i].conversationHistory = << >>

\* The running session has a conversation in memory and its stored record,
\* written after intake, holds none.
C29_Witness ==
  /\ conversationHistory # << >>
  /\ \E i \in 1..Len(sessions) :
       /\ sessions[i].id = sessionId
       /\ sessions[i].status \in { "summary", "pathway", "letter" }
       /\ sessions[i].conversationHistory = << >>

\* ---- vocabulary of the storage claims
Expired(s) == s.age >= SESSION_MAX_AGE_DAYS

ExpiredIds(ss) == { ss[i].id : i \in { j \in 1..Len(ss) : Expired(ss[j]) } }

\* C30: after purgeExpiredSessions has run, storage holds no session whose
\* last update is 30 days old or more and no diary of a session it removed;
\* and deleteSession leaves no diary of the session it deleted.
C30_DiariesGoWithSessions ==
  [][ /\ purgeExpiredSessions =>
           /\ ExpiredIds(lsSessions') = {}
           /\ \A id \in ExpiredIds(lsSessions) :
                DiaryKey(id) \notin KeysOf(lsKeys')
      /\ \A id \in 1..MaxStored :
           deleteSessionItems(id) => DiaryKey(id) \notin KeysOf(lsKeys')
    ]_vars

\* A text of the informal class only.
InformalText == "I spoke to someone on the phone"

\* C36: for every template and every text without an ombudsman-level term,
\* a text of the formal/written class yields the same current step as a
\* text of the informal class: the second step of a template with more
\* than one step, else the only step; 'stage 2' and 'tier 2' never move the
\* current step beyond the second.
C36_FormalSameAsInformal ==
  (~IsNull(rInstance) /\ IsCatalogTemplate(Val(rTemplate))
     /\ KeywordsIn(rArgs.stepsTaken) \cap FormalTerms # {}
     /\ KeywordsIn(rArgs.stepsTaken) \cap OmbudsmanTerms = {})
    => LET n == Len(Val(rTemplate).current)
           informal == adjustForStepsTaken(Val(rTemplate), InformalText)
       IN /\ KeywordsIn(InformalText) \subseteq InformalTerms
          /\ Val(rInstance).current = informal.current
          /\ CurrentSteps(Val(rInstance)) = { IF n > 1 THEN 2 ELSE 1 }
          /\ \A i \in CurrentSteps(Val(rInstance)) : i <= 2

\* An instance of a four-step template for the text naming stage 2: its
\* second step is current, as for the informal text.
C36_Witness ==
  /\ ~IsNull(rInstance)
  /\ Val(rTemplate) = catalog["hmrc"]
  /\ rArgs.stepsTaken \in { "I am at stage 2", "I reached tier 2 of the process" }
  /\ Val(rInstance).current = << FALSE, TRUE, FALSE, FALSE >>
  /\ adjustForStepsTaken(catalog["hmrc"], InformalText).current
       = << FALSE, TRUE, FALSE, FALSE >>

\* The durations are tried in ascending order, so the first hit is the
\* shortest duration the text mentions.
FirstTriedDuration(key) ==
  CHOOSE m \in TimeLimitMentions(key) :
    \A other \in TimeLimitMentions(key) : m <= other

\* C37: calculateDeadlines tries '1 month', '6 month', '12 month' in that
\* order on the pathway's timeLimit text and the first hit wins: the HMRC
\* template, which mentions 12 and 6 months, gets a 6-month submission
\* deadline and the combined DWP template, which mentions 1 and 12, a
\* 1-month one.
C37_FirstDurationWins ==
  (DeadlinesReturned /\ TimeLimitMentions(Val(calcCall).key) # {}) =>
    LET c == Val(calcCall)
        eventDate == Val(FirstSuccess(c))
        submitBy == Val(Deadlines.submitBy)
    IN /\ ~IsNull(Deadlines.submitBy)
       /\ submitBy.date = addMonths(eventDate.date, FirstTriedDuration(c.key))
       /\ c.key = "hmrc" => submitBy.date = addMonths(eventDate.date, 6)
       /\ c.key = "dwp" => submitBy.date = addMonths(eventDate.date, 1)

\* The HMRC template with an event on 4 March 2025: submit by 4 September
\* 2025, six months on, not twelve.
C37_Witness ==
  /\ DeadlinesReturned
  /\ Val(calcCall).key = "hmrc"
  /\ TimeLimitMentions("hmrc") = { 6, 12 }
  /\ Val(calcCall).dateSpecific = "03/04/2025"
  /\ Val(Deadlines.submitBy).date = Date(2025, 9, 4)

\* C38: addWorkingDays applies the weekend test and the bank-holiday test
\* to the same calendar date, so the day it returns is neither a weekend
\* day nor a listed holiday and does not depend on the time of day of the
\* start date or on the offset between local time and UTC.
C38_SameDateForBothTests ==
  Returned("addWorkingDays") =>
    LET c == Val(calcCall)
        r == Val(calcResult)
    IN /\ toISODate(r, c.hour, c.offset) = r
       /\ getDay(r) \notin { 0, 6 }
       /\ r \notin UK_BANK_HOLIDAYS
       /\ \A hour \in CallHours, offset \in ZoneOffsets :
            r = addWorkingDays(c.date, hour, offset, c.n)

\* ---- claims on erasure, consent and the AI calls
\* C31: a confirmed 'Delete all my data' leaves storage with no saved
\* session, no diary item and no consent flag, and resets the in-memory
\* history, facts, pathway and session id, with status 'intake'.
C31_DeleteAllErases ==
  [][ handleDeleteAllData =>
        /\ sessions' = << >>
        /\ \A i \in 1..Len(lsKeys') : lsKeys'[i].kind # "diary"
        /\ ~consent'
        /\ conversationHistory' = << >>
        /\ extractedFacts' = Null
        /\ currentPathway' = Null
        /\ resolvedBodies' = Null
        /\ sessionId' = 0
        /\ sessionStatus' = "intake"
    ]_vars

\* Sessions were created and consent given, and nothing of them is left:
\* the data was deleted, and the consent gate is shown again.
C31_Witness ==
  /\ nextId > 2
  /\ ~consent
  /\ consentGate
  /\ sessions = << >>
  /\ lsKeys = << >>
  /\ sessionId = 0
  /\ conversationHistory = << >>
  /\ extractedFacts = Null
  /\ sessionStatus = "intake"
  /\ view = "landing"

\* The step creates a session or sends a first message to the AI service.
SessionCreated ==
  \/ nextId' # nextId
  \/ pendingGreetings' > pendingGreetings

\* C32: a new session is created, and its first message sent to the AI
\* service, only by the accept action of the consent gate of a start
\* attempt, with all three checkboxes checked in that attempt; and no call
\* of the AI service is started without the consent flag.
C32_ConsentBeforeSession ==
  [][ /\ SessionCreated =>
           /\ consentGate
           /\ acceptWired
           /\ consentChecks = 3
           /\ gateFromStart
           /\ consent'
      /\ calls' > calls => consent'
    ]_vars

\* A text that holds an NHS number or a National Insurance number.
ContainsIdentifier(text) ==
  text \in { "my NHS number is 943 476 5919",
             "my NHS number is 9434765919",
             "my NHS number is 943-476-5919",
             "my NI number is AB 12 34 56 C",
             "my NI number is ab123456c" }

PayloadBuilt == ~IsNull(calcCall) /\ ~IsNull(calcResult)

\* C33: no text passed to the AI service by a chat send (its history
\* included), by the letter generation or by the MP letter holds an
\* unredacted identifier, while the conversation kept locally retains the
\* original text.
C33_NoIdentifierSent ==
  PayloadBuilt =>
    LET c == Val(calcCall)
        r == Val(calcResult)
    IN /\ \A i \in 1..Len(r.sent) : ~ContainsIdentifier(r.sent[i].text)
       /\ c.fn = "handleSend" => r.kept = c.history \o Turn(c.text)

\* The concern of the facts the session holds; Absent without facts.
CurrentConcern ==
  IF IsNull(extractedFacts) THEN Absent
  ELSE Val(extractedFacts).safeguardingConcern

\* C34: the safeguarding check of a confirm or acknowledge click is made
\* against the facts the session holds at that moment: a card or gate made
\* for earlier facts does not take the session to a pathway while the
\* current facts carry a serious concern, and with any other concern only
\* the acknowledge button does.
C34_CheckUsesCurrentFacts ==
  [][ ( /\ ConfirmStep \/ gateAcknowledge
        /\ << sessionStatus, currentPathway >>'
             # << sessionStatus, currentPathway >> )
        => /\ CurrentConcern \notin SERIOUS_CONCERNS
           /\ CurrentConcern \notin { Absent, "", "none" } => gateAcknowledge
    ]_vars

\* C35: when the AI call of handleSend fails, conversationHistory,
\* extractedFacts, currentPathway and sessionStatus are left unchanged; and
\* after every send isSending returns to false, and a send made while it
\* is false is accepted.
C35_FailedSendChangesNothing ==
  /\ [][ sendFail => UNCHANGED << conversationHistory, extractedFacts,
                                  currentPathway, sessionStatus >> ]_vars
  /\ [][ (handleSend /\ ~isSending) => isSending' ]_vars
  /\ isSending ~> ~isSending

\* The greeting was answered, then a send failed: the fallback card is
\* shown, the conversation still has the greeting only, and the busy flag
\* is down again.
C35_Witness ==
  /\ fallbackCard
  /\ Len(conversationHistory) = 2
  /\ IsNull(extractedFacts)
  /\ IsNull(currentPathway)
  /\ sessionStatus = "intake"
  /\ ~isSending
  /\ sendPc = "idle"
  /\ calls >= 2

\* C39: the confirm button classifies every value of safeguardingConcern:
\* the four serious values get the blocking gate and no progression;
\* 'none', an absent value and the empty string progress to the pathway
\* with no gate; every other value, 'regulatory' and an unlisted string
\* alike, gets a gate with an acknowledge button and no progression yet.
C39_ClassificationTotal ==
  [][ \A c \in Concerns \cup { Absent } :
        confirmSummaryClick(c) =>
          IF c \in SERIOUS_CONCERNS
          THEN /\ gates'.serious
               /\ gates'.open = gates.open
               /\ UNCHANGED << sessionStatus, currentPathway >>
          ELSE IF c \in { "none", "", Absent }
          THEN /\ gates' = gates
               /\ sessionStatus' = "pathway"
               /\ ~IsNull(currentPathway')
          ELSE /\ gates'.open = gates.open + 1
               /\ gates'.serious = gates.serious
               /\ UNCHANGED << sessionStatus, currentPathway >>
    ]_vars

\* The only card of the session carries an unlisted concern, and its
\* confirm button has put up a gate with an acknowledge button.
C39_Witness ==
  /\ summaryCards = { "whistleblowing" }
  /\ gates.open = 1
  /\ ~gates.serious
  /\ sessionStatus = "summary"

\* The only card of the session carries the empty string as concern, and
\* its confirm button has led to the pathway with no gate.
C39_WitnessEmpty ==
  /\ summaryCards = { "" }
  /\ gates = NoGates
  /\ sessionStatus = "pathway"

====
